---- MODULE Spec2Model ----
(***************************************************************************)
(* The append-only, content-addressed record store of sportsbetsinfo:      *)
(* the five repositories over one SQLite connection, the schema's          *)
(* constraints and immutability triggers, hashing and hash verification    *)
(* on read, and the lineage walk over the analysis parent pointers.        *)
(***************************************************************************)
EXTENDS Integers, Sequences, FiniteSets, TLC

VARIABLES
    focus,       \* the repository the caller works with in this run
    db,          \* the committed database: one field per table
    txn,         \* the connection's view: db plus its uncommitted writes
    ret,         \* the last repository call: operation, argument, error, value
    pc,          \* "idle", or "lineage" while get_lineage's loop runs
    current_id,  \* get_lineage's current_id
    lineage,     \* get_lineage's lineage list, its first MaxWalk nodes
    walked,      \* len(lineage); past MaxWalk only whether it is odd or even
    writer,      \* an insert under way, statement by statement, on the connection;
                 \* with two writing connections, the call under way on each
    reader       \* a read under way, SELECT by SELECT, on a second connection

vars == <<focus, db, txn, ret, pc, current_id, lineage, walked, writer, reader>>

----------------------------------------------------------------------------
(* Bounds of the model.                                                     *)

\* nodes get_lineage's list records (longer lists keep their first MaxWalk)
MaxWalk == 3

\* columns of one improvement_proposals row that SQL statements written
\* past the repositories have changed
MaxForged == 1

----------------------------------------------------------------------------
(* Values.                                                                  *)

None == "None"      \* Python's None
NULL == "NULL"      \* SQL NULL

SnapshotIds   == {"s1", "s2"}
AnalysisIds   == {"a1", "a2"}
OutcomeIds    == {"o1", "o2"}
EvaluationIds == {"e1", "e2"}
ProposalIds   == {"p1", "p2"}
GameIds       == {"g1", "g2"}
Times         == {1}
Winners       == {None, "home"}

\* a dict / list valued field: None, empty, or non-empty
Shapes == {None, "Empty", "Full"}

PENDING     == "pending"
ACCEPTED    == "accepted"
REJECTED    == "rejected"
IMPLEMENTED == "implemented"
ProposalStatus == {PENDING, ACCEPTED, REJECTED, IMPLEMENTED}

Range(q) == {q[i] : i \in 1..Len(q)}

\* every id in the order SQLite's binary collation gives the id strings
IdOrder == <<"a1", "a2", "e1", "e2", "o1", "o2", "p1", "p2", "s1", "s2">>
IdRank(id) == CHOOSE i \in 1..Len(IdOrder) : IdOrder[i] = id

\* the ids of S in index order (ascending)
RECURSIVE IndexOrder(_)
IndexOrder(S) ==
    IF S = {} THEN <<>>
    ELSE LET m == CHOOSE x \in S : \A y \in S : IdRank(x) <= IdRank(y)
         IN  <<m>> \o IndexOrder(S \ {m})

\* the sequences over S of at most two ids (a caller may repeat an id)
IdLists(S) == {<<>>} \cup {<<x>> : x \in S} \cup {<<x, y>> : x \in S, y \in S}

RECURSIVE reversed(_)
reversed(q) == IF q = <<>> THEN <<>> ELSE Append(reversed(Tail(q)), Head(q))

----------------------------------------------------------------------------
(* Conversions between Python values and column values.                     *)

\* The dict values of the model, each named by how it was built: "Empty" is
\* {}, "Full" is {"k": 1}, and two dicts of the same items built in two
\* insertion orders.
AB == "{'a': 1, 'b': 2}"
BA == "{'b': 2, 'a': 1}"
Dicts == {"Empty", "Full", AB, BA}

\* dict.items(): the <<key, value text>> pairs in insertion order
items(v) ==
    CASE v = "Empty" -> <<>>
      [] v = "Full"  -> << <<"k", "1">> >>
      [] v = AB      -> << <<"a", "1">>, <<"b", "2">> >>
      [] v = BA      -> << <<"b", "2">>, <<"a", "1">> >>

\* the keys in the order of sorted()
KeyOrder == <<"a", "b", "k">>

\* the pairs in the order of their keys, from the i-th key of KeyOrder on
RECURSIVE sort_keys(_, _)
sort_keys(pairs, i) ==
    IF i > Len(KeyOrder) THEN <<>>
    ELSE SelectSeq(pairs, LAMBDA p : p[1] = KeyOrder[i]) \o sort_keys(pairs, i + 1)

\* the text of a dict's pairs with separators (",", ":")
RECURSIVE dumps_items(_)
dumps_items(pairs) ==
    IF pairs = <<>> THEN ""
    ELSE Head(pairs)[1] \o ":" \o Head(pairs)[2]
         \o (IF Len(pairs) > 1 THEN "," ELSE "") \o dumps_items(Tail(pairs))

\* json.dumps(v) of None, of a dict / list valued field, or of a string: a
\* dict's pairs in insertion order
json_dumps(v) ==
    CASE v = None     -> "null"
      [] v \in Dicts -> "{" \o dumps_items(items(v)) \o "}"
      [] OTHER        -> v

\* json.loads, the inverse of json.dumps on its texts
json_loads(text) ==
    CASE text = "null"      -> None
      [] text = "{}"        -> "Empty"
      [] text = "{k:1}"     -> "Full"
      [] text = "{a:1,b:2}" -> AB
      [] text = "{b:2,a:1}" -> BA
      [] OTHER              -> text

\* datetime.isoformat and datetime.fromisoformat
isoformat(t) == [iso |-> t]
fromisoformat(text) == text.iso

\* Python truthiness of a dict / list valued field: None and empty are falsy
Truthy(v) == v = "Full"

\* the column of an optional field: json.dumps(x) if x else None
OptionalColumn(v) == IF Truthy(v) THEN json_dumps(v) ELSE NULL

\* an optional field read back: json.loads(col) if col else None
OptionalField(col) == IF col # NULL THEN json_loads(col) ELSE None

\* a nullable scalar bound as a parameter, and read back
Bind(v) == IF v = None THEN NULL ELSE v
Fetch(col) == IF col = NULL THEN None ELSE col

----------------------------------------------------------------------------
(* Hashing: SHA-256 of the canonical JSON of the hashed fields.  The digest *)
(* is modelled as the canonical text itself (no collisions); the canonical   *)
(* text as a record, which like sort_keys=True has no key order.            *)

\* json.dumps(..., default=default): a datetime goes through default, which
\* gives its ISO text; the other values as json.dumps has them.  A tuple of
\* ids is dumped as the list of them, here the sequence itself.
default(o) == isoformat(o)

\* the serialization without sort_keys
_serialize_for_hash_unsorted(v) == json_dumps(v)

\* json.dumps(v, sort_keys=True, ...): a dict's pairs in the order of keys
_serialize_for_hash(v) ==
    CASE v = None     -> "null"
      [] v \in Dicts -> "{" \o dumps_items(sort_keys(items(v), 1)) \o "}"
      [] OTHER        -> v

_compute_hash(data) == [sha256 |-> data]

compute_snapshot_hash(snapshot) ==
    _compute_hash([game_id        |-> snapshot.game_id,
                   collected_at   |-> default(snapshot.collected_at),
                   schema_version |-> snapshot.schema_version])

compute_analysis_hash(analysis) ==
    _compute_hash([parent_analysis_id |-> _serialize_for_hash(analysis.parent_analysis_id),
                   input_snapshot_ids |-> analysis.input_snapshot_ids])

compute_outcome_hash(outcome) ==
    _compute_hash([game_id     |-> outcome.game_id,
                   occurred_at |-> default(outcome.occurred_at),
                   winner      |-> _serialize_for_hash(outcome.winner)])

compute_evaluation_hash(evaluation) ==
    _compute_hash([analysis_id |-> evaluation.analysis_id,
                   game_id     |-> evaluation.game_id,
                   notes       |-> _serialize_for_hash(evaluation.notes)])

compute_proposal_hash(proposal) ==
    _compute_hash(
        [based_on_evaluation_ids    |-> proposal.based_on_evaluation_ids,
         proposal_text              |-> _serialize_for_hash(proposal.proposal_text),
         suggested_schema_additions |-> _serialize_for_hash(proposal.suggested_schema_additions),
         suggested_modules          |-> _serialize_for_hash(proposal.suggested_modules),
         expected_impact            |-> _serialize_for_hash(proposal.expected_impact)])

\* the hash function of an entity's type
HashOf(kind, entity) ==
    CASE kind = "InfoSnapshot"        -> compute_snapshot_hash(entity)
      [] kind = "Analysis"            -> compute_analysis_hash(entity)
      [] kind = "Outcome"             -> compute_outcome_hash(entity)
      [] kind = "Evaluation"          -> compute_evaluation_hash(entity)
      [] kind = "ImprovementProposal" -> compute_proposal_hash(entity)

verify_hash(kind, entity) == HashOf(kind, entity) = entity.hash

----------------------------------------------------------------------------
(* The entities and their factories.  uuid4 and datetime.now are the        *)
(* factory's arguments id and now.  Of the hashed fields that only pass     *)
(* through json.dumps / json.loads or are stored as given, one stands for   *)
(* all (schema_version, winner, proposal_text).                             *)

InfoSnapshot_create(id, game_id, collected_at, schema_version) ==
    LET instance == [snapshot_id |-> id, game_id |-> game_id,
                     collected_at |-> collected_at,
                     schema_version |-> schema_version, hash |-> ""]
    IN  [instance EXCEPT !.hash = compute_snapshot_hash(instance)]

Analysis_create(id, now, input_snapshot_ids, parent_analysis_id) ==
    LET instance == [analysis_id |-> id, created_at |-> now,
                     parent_analysis_id |-> parent_analysis_id,
                     input_snapshot_ids |-> input_snapshot_ids, hash |-> ""]
    IN  [instance EXCEPT !.hash = compute_analysis_hash(instance)]

Outcome_create(id, game_id, occurred_at, winner) ==
    LET instance == [outcome_id |-> id, game_id |-> game_id,
                     occurred_at |-> occurred_at, winner |-> winner, hash |-> ""]
    IN  [instance EXCEPT !.hash = compute_outcome_hash(instance)]

Evaluation_create(id, now, analysis_id, game_id, notes) ==
    LET instance == [evaluation_id |-> id, analysis_id |-> analysis_id,
                     game_id |-> game_id, scored_at |-> now, notes |-> notes,
                     hash |-> ""]
    IN  [instance EXCEPT !.hash = compute_evaluation_hash(instance)]

ImprovementProposal_create(id, now, based_on_evaluation_ids, proposal_text, suggested_schema_additions, suggested_modules, expected_impact) ==
    LET instance == [proposal_id |-> id, created_at |-> now,
                     based_on_evaluation_ids |-> based_on_evaluation_ids,
                     proposal_text |-> proposal_text,
                     suggested_schema_additions |-> suggested_schema_additions,
                     suggested_modules |-> suggested_modules,
                     expected_impact |-> expected_impact,
                     status |-> PENDING, hash |-> ""]
    IN  [instance EXCEPT !.hash = compute_proposal_hash(instance)]

\* the optional fields of the proposals the model inserts
ProposalShapes ==
    {<<None, None, None>>, <<"Empty", "Full", "Empty">>, <<"Full", "Empty", "Full">>}

\* The entities handed to insert.  Their hash is the hash of their fields.
\* An id may be one already persisted (the same object inserted again), and
\* an Analysis built with the dataclass constructor may name any parent,
\* itself included; the factory's own entities are among them.
\* A run works with one repository, focus, and takes its entities from the
\* whole set below; of the repositories its foreign keys point to it inserts
\* only the few entities named here for them.  A run with focus "raw SQL"
\* holds one entity of each kind, for a client that writes SQL statements
\* to the tables itself.
Snapshots ==
    CASE focus = "info_snapshots" ->
            \* two collection times, and at the first two contents
            {InfoSnapshot_create(id, g, x[1], x[2]) :
                id \in SnapshotIds, g \in GameIds,
                x \in {<<1, "1">>, <<1, "2">>, <<2, "1">>}}
      [] focus \in {"analyses", "concurrent"} ->
            {InfoSnapshot_create("s1", "g1", 1, "1"),
             InfoSnapshot_create("s2", "g2", 1, "1")}
      [] focus = "race" ->
            \* the same content collected twice, and other content
            {InfoSnapshot_create("s1", "g1", 1, "1"),
             InfoSnapshot_create("s2", "g1", 1, "1"),
             InfoSnapshot_create("s3", "g2", 1, "1")}
      [] focus = "raw SQL" ->
            \* one from the factory, one from the dataclass constructor with a
            \* hash that is not the hash of its content
            {InfoSnapshot_create("s1", "g1", 1, "1"),
             [InfoSnapshot_create("s2", "g1", 2, "1") EXCEPT
                  !.hash = [sha256 |-> [forged |-> TRUE]]]}
      [] OTHER -> {}

Analyses ==
    CASE focus = "analyses" ->
            {Analysis_create(id[1], id[2], ids, parent) :
                id \in AnalysisIds \X Times, ids \in IdLists(SnapshotIds),
                parent \in AnalysisIds \cup {None}}
      [] focus = "evaluations" ->
            {Analysis_create("a1", 1, <<>>, None), Analysis_create("a2", 1, <<>>, "a1")}
      [] focus = "improvement_proposals" -> {Analysis_create("a1", 1, <<>>, None)}
      [] focus = "raw SQL" -> {Analysis_create("a1", 1, <<"s1">>, None)}
      [] focus = "concurrent" ->
            {Analysis_create("a1", 1, <<"s1", "s2">>, None),
             Analysis_create("a2", 1, <<"s2">>, "a1")}
      [] OTHER -> {}

Outcomes ==
    CASE focus = "outcomes" ->
            {Outcome_create(id[1], g, id[2], w) :
                id \in OutcomeIds \X Times, g \in GameIds, w \in Winners}
      [] focus = "evaluations" ->
            {Outcome_create("o1", "g1", 1, None), Outcome_create("o2", "g2", 1, "home")}
      [] focus \in {"improvement_proposals", "raw SQL", "concurrent"} ->
            {Outcome_create("o1", "g1", 1, None)}
      [] OTHER -> {}

Evaluations ==
    CASE focus = "evaluations" ->
            {Evaluation_create(id[1], id[2], a, g, notes) :
                id \in EvaluationIds \X Times, a \in AnalysisIds, g \in GameIds,
                notes \in Shapes}
      [] focus \in {"improvement_proposals", "concurrent"} ->
            {Evaluation_create("e1", 1, "a1", "g1", None),
             Evaluation_create("e2", 1, "a1", "g1", "Full")}
      [] focus = "raw SQL" -> {Evaluation_create("e1", 1, "a1", "g1", None)}
      [] OTHER -> {}

Proposals ==
    CASE focus = "improvement_proposals" ->
            {ImprovementProposal_create(id[1], id[2], ids, "t1", None, None, None) :
                id \in ProposalIds \X Times, ids \in IdLists(EvaluationIds)}
            \cup
            {ImprovementProposal_create(id[1], id[2], <<>>, "t1", sh[1], sh[2], sh[3]) :
                id \in ProposalIds \X Times, sh \in ProposalShapes}
      [] focus = "raw SQL" ->
            {ImprovementProposal_create("p1", 1, <<"e1">>, "t1", None, None, None)}
      [] focus = "concurrent" ->
            {ImprovementProposal_create("p1", 1, <<"e1", "e2">>, "t1", None, None, None)}
      [] OTHER -> {}

----------------------------------------------------------------------------
(* The schema: tables, constraints, triggers.  A statement either changes   *)
(* the connection's view t or fails with sqlite3.IntegrityError and leaves  *)
(* t as it was.  The connection was opened with PRAGMA foreign_keys = ON.  *)

Tables == {"info_snapshots", "analyses", "analysis_snapshots", "outcomes",
           "evaluations", "improvement_proposals", "proposal_evaluations"}

EntityTables == {"info_snapshots", "analyses", "outcomes", "evaluations",
                 "improvement_proposals"}

\* the database after initialize_database
EmptyDb == [tb \in Tables |-> {}]

\* the primary key column of an entity table
PrimaryKey(table) ==
    CASE table = "info_snapshots"        -> "snapshot_id"
      [] table = "analyses"              -> "analysis_id"
      [] table = "outcomes"              -> "outcome_id"
      [] table = "evaluations"           -> "evaluation_id"
      [] table = "improvement_proposals" -> "proposal_id"

\* the columns without the UNIQUE on outcomes.game_id
UniqueColumns_no_game_key(table) ==
    CASE table = "info_snapshots"        -> <<"hash", "snapshot_id">>
      [] table = "analyses"              -> <<"hash", "analysis_id">>
      [] table = "outcomes"              -> <<"hash", "outcome_id">>
      [] table = "evaluations"           -> <<"hash", "evaluation_id">>
      [] table = "improvement_proposals" -> <<"hash", "proposal_id">>

\* the columns without the UNIQUE on analyses.hash
UniqueColumns_no_analysis_hash(table) ==
    CASE table = "info_snapshots"        -> <<"hash", "snapshot_id">>
      [] table = "analyses"              -> <<"analysis_id">>
      [] table = "outcomes"              -> <<"hash", "game_id", "outcome_id">>
      [] table = "evaluations"           -> <<"hash", "evaluation_id">>
      [] table = "improvement_proposals" -> <<"hash", "proposal_id">>

\* The UNIQUE and PRIMARY KEY columns of an entity table, in the order
\* SQLite checks them on a write: the index created last is checked first,
\* so hash comes before the business key and the primary key.
\* the constraints with the primary key of info_snapshots checked first
UniqueColumns_id_first(table) ==
    CASE table = "info_snapshots"        -> <<"snapshot_id", "hash">>
      [] table = "analyses"              -> <<"hash", "analysis_id">>
      [] table = "outcomes"              -> <<"hash", "game_id", "outcome_id">>
      [] table = "evaluations"           -> <<"hash", "evaluation_id">>
      [] table = "improvement_proposals" -> <<"hash", "proposal_id">>

UniqueColumns(table) ==
    CASE table = "info_snapshots"        -> <<"hash", "snapshot_id">>
      [] table = "analyses"              -> <<"hash", "analysis_id">>
      [] table = "outcomes"              -> <<"hash", "game_id", "outcome_id">>
      [] table = "evaluations"           -> <<"hash", "evaluation_id">>
      [] table = "improvement_proposals" -> <<"hash", "proposal_id">>

Ok(t) == [error |-> "none", t |-> t]
IntegrityError(message, t) == [error |-> message, t |-> t]

UniqueFailed(table, column) ==
    "UNIQUE constraint failed: " \o table \o "." \o column
ForeignKeyFailed == "FOREIGN KEY constraint failed"

\* the first UNIQUE column of table on which row collides with a row of
\* others, or "none"
RECURSIVE FirstCollision(_, _, _)
FirstCollision(columns, others, row) ==
    IF columns = <<>> THEN "none"
    ELSE IF \E x \in others : x[Head(columns)] = row[Head(columns)]
         THEN Head(columns)
         ELSE FirstCollision(Tail(columns), others, row)

\* a connection on which PRAGMA foreign_keys was left off
ForeignKeysHold_off(table, t) == TRUE

\* the FOREIGN KEY clauses of a table, checked when the statement ends, so
\* that a row may reference itself
ForeignKeysHold(table, t) ==
    CASE table = "analyses" ->
            \A r \in t.analyses :
                r.parent_analysis_id = NULL
                \/ \E x \in t.analyses : x.analysis_id = r.parent_analysis_id
      [] table = "analysis_snapshots" ->
            \A r \in t.analysis_snapshots :
                /\ \E x \in t.analyses : x.analysis_id = r.analysis_id
                /\ \E x \in t.info_snapshots : x.snapshot_id = r.snapshot_id
      [] table = "evaluations" ->
            \A r \in t.evaluations :
                /\ \E x \in t.analyses : x.analysis_id = r.analysis_id
                /\ \E x \in t.outcomes : x.game_id = r.game_id
      [] table = "proposal_evaluations" ->
            \A r \in t.proposal_evaluations :
                /\ \E x \in t.improvement_proposals : x.proposal_id = r.proposal_id
                /\ \E x \in t.evaluations : x.evaluation_id = r.evaluation_id
      [] OTHER -> TRUE

\* INSERT OR REPLACE INTO an entity table
InsertRow_replace(t, table, row) ==
    LET kept  == {x \in t[table] :
                     \A i \in 1..Len(UniqueColumns(table)) :
                         x[UniqueColumns(table)[i]] # row[UniqueColumns(table)[i]]}
        after == [t EXCEPT ![table] = kept \cup {row}]
    IN  IF ~ForeignKeysHold(table, after) THEN IntegrityError(ForeignKeyFailed, t)
        ELSE Ok(after)

\* INSERT INTO an entity table
InsertRow(t, table, row) ==
    LET column == FirstCollision(UniqueColumns(table), t[table], row)
        after  == [t EXCEPT ![table] = @ \cup {row}]
    IN  IF column # "none" THEN IntegrityError(UniqueFailed(table, column), t)
        ELSE IF ~ForeignKeysHold(table, after) THEN IntegrityError(ForeignKeyFailed, t)
        ELSE Ok(after)

\* INSERT INTO a junction table, whose primary key is the pair
InsertPair(t, table, row, columns) ==
    LET after == [t EXCEPT ![table] = @ \cup {row}]
    IN  IF row \in t[table] THEN IntegrityError(UniqueFailed(table, columns), t)
        ELSE IF ~ForeignKeysHold(table, after) THEN IntegrityError(ForeignKeyFailed, t)
        ELSE Ok(after)

\* the triggers without the update trigger of evaluations
Triggers_no_evaluations_update ==
    {<<"UPDATE", "info_snapshots">>,        <<"DELETE", "info_snapshots">>,
     <<"UPDATE", "analyses">>,              <<"DELETE", "analyses">>,
     <<"UPDATE", "analysis_snapshots">>,    <<"DELETE", "analysis_snapshots">>,
     <<"UPDATE", "outcomes">>,              <<"DELETE", "outcomes">>,
                                            <<"DELETE", "evaluations">>,
                                            <<"DELETE", "improvement_proposals">>,
     <<"UPDATE", "proposal_evaluations">>,  <<"DELETE", "proposal_evaluations">>}

\* the triggers of IMMUTABILITY_TRIGGERS_SQL, as <<event, table>>
Triggers ==
    {<<"UPDATE", "info_snapshots">>,        <<"DELETE", "info_snapshots">>,
     <<"UPDATE", "analyses">>,              <<"DELETE", "analyses">>,
     <<"UPDATE", "analysis_snapshots">>,    <<"DELETE", "analysis_snapshots">>,
     <<"UPDATE", "outcomes">>,              <<"DELETE", "outcomes">>,
     <<"UPDATE", "evaluations">>,           <<"DELETE", "evaluations">>,
                                            <<"DELETE", "improvement_proposals">>,
     <<"UPDATE", "proposal_evaluations">>,  <<"DELETE", "proposal_evaluations">>}

\* SELECT RAISE(ABORT, '... not allowed on immutable table ...')
TriggerMessage(event, table) ==
    (IF event = "UPDATE" THEN "Updates" ELSE "Deletes")
        \o " not allowed on immutable table " \o table

\* UPDATE table SET column = value, on the one row old of the table
UpdateRow(t, table, old, column, value) ==
    LET new    == [old EXCEPT ![column] = value]
        others == t[table] \ {old}
        hit    == IF table \in EntityTables
                  THEN FirstCollision(UniqueColumns(table), others, new)
                  ELSE IF new \in others THEN column ELSE "none"
        after  == [t EXCEPT ![table] = others \cup {new}]
    IN  IF old \notin t[table] THEN Ok(t)
        ELSE IF <<"UPDATE", table>> \in Triggers
             THEN IntegrityError(TriggerMessage("UPDATE", table), t)
        ELSE IF hit # "none" THEN IntegrityError(UniqueFailed(table, hit), t)
        ELSE IF \E tb \in Tables : ~ForeignKeysHold(tb, after)
             THEN IntegrityError(ForeignKeyFailed, t)
        ELSE Ok(after)

\* DELETE FROM table, on the one row old of the table
DeleteRow(t, table, old) ==
    LET after == [t EXCEPT ![table] = @ \ {old}]
    IN  IF old \notin t[table] THEN Ok(t)
        ELSE IF <<"DELETE", table>> \in Triggers
             THEN IntegrityError(TriggerMessage("DELETE", table), t)
        ELSE IF \E tb \in Tables : ~ForeignKeysHold(tb, after)
             THEN IntegrityError(ForeignKeyFailed, t)
        ELSE Ok(after)

\* Connection.commit and Connection.rollback, as the committed database and
\* the view they leave: [db, txn]
commit(d, t) == [db |-> t, txn |-> t]

\* a rollback that leaves the uncommitted writes in the view
rollback_kept(d, t) == [db |-> d, txn |-> t]

rollback(d, t) == [db |-> d, txn |-> d]

----------------------------------------------------------------------------
(* What a repository call gives its caller: the exception raised (or none)  *)
(* and the value returned, as the sequence of the entities in it: <<>> is   *)
(* None or the empty list, <<e>> one entity or a list of one.               *)

NoError == [type |-> "none"]
DuplicateEntityError(entity_type, hash_value) ==
    [type |-> "DuplicateEntityError", entity_type |-> entity_type,
     hash_value |-> hash_value]
HashMismatchError(entity_type, entity_id, expected, actual) ==
    [type |-> "HashMismatchError", entity_type |-> entity_type,
     entity_id |-> entity_id, expected |-> expected, actual |-> actual]

\* 'OutcomeRepository' object has no attribute 'get_by_hash'
AttributeError(obj, name) == [type |-> "AttributeError", obj |-> obj, name |-> name]

\* the repository class of a table
RepositoryOf(table) ==
    CASE table = "info_snapshots"        -> "SnapshotRepository"
      [] table = "analyses"              -> "AnalysisRepository"
      [] table = "outcomes"              -> "OutcomeRepository"
      [] table = "evaluations"           -> "EvaluationRepository"
      [] table = "improvement_proposals" -> "ProposalRepository"

Return(val) == [err |-> NoError, val |-> val]
Raise(err) == [err |-> err, val |-> <<>>]

\* the entity as built from the row, not verified
_verify_hash_on_read_skipped(kind, entity) == Return(<<entity>>)

\* ImmutableRepository._verify_hash_on_read
_verify_hash_on_read(kind, entity) ==
    IF ~verify_hash(kind, entity)
    THEN LET attribute == CASE kind = "InfoSnapshot"        -> "infosnapshot_id"
                            [] kind = "Analysis"            -> "analysis_id"
                            [] kind = "Outcome"             -> "outcome_id"
                            [] kind = "Evaluation"          -> "evaluation_id"
                            [] kind = "ImprovementProposal" -> "improvementproposal_id"
             entity_id == IF attribute \in DOMAIN entity THEN entity[attribute]
                          ELSE "unknown"
         IN  Raise(HashMismatchError(kind, entity_id, entity.hash,
                                     HashOf(kind, entity)))
    ELSE Return(<<entity>>)

\* the _row_to_entity of the five repositories
Snapshot_row_to_entity(row) ==
    _verify_hash_on_read("InfoSnapshot",
        [snapshot_id    |-> row.snapshot_id,
         game_id        |-> row.game_id,
         collected_at   |-> fromisoformat(row.collected_at),
         schema_version |-> row.schema_version,
         hash           |-> row.hash])

Analysis_row_to_entity(row, snapshot_ids) ==
    _verify_hash_on_read("Analysis",
        [analysis_id        |-> row.analysis_id,
         created_at         |-> fromisoformat(row.created_at),
         parent_analysis_id |-> Fetch(row.parent_analysis_id),
         input_snapshot_ids |-> snapshot_ids,
         hash               |-> row.hash])

Outcome_row_to_entity(row) ==
    _verify_hash_on_read("Outcome",
        [outcome_id  |-> row.outcome_id,
         game_id     |-> row.game_id,
         occurred_at |-> fromisoformat(row.occurred_at),
         winner      |-> Fetch(row.winner),
         hash        |-> row.hash])

Evaluation_row_to_entity(row) ==
    _verify_hash_on_read("Evaluation",
        [evaluation_id |-> row.evaluation_id,
         analysis_id   |-> row.analysis_id,
         game_id       |-> row.game_id,
         scored_at     |-> fromisoformat(row.scored_at),
         notes         |-> OptionalField(row.notes),
         hash          |-> row.hash])

Proposal_row_to_entity(row, eval_ids) ==
    _verify_hash_on_read("ImprovementProposal",
        [proposal_id                |-> row.proposal_id,
         created_at                 |-> fromisoformat(row.created_at),
         based_on_evaluation_ids    |-> eval_ids,
         proposal_text              |-> row.proposal_text,
         suggested_schema_additions |-> OptionalField(row.suggested_schema_additions),
         suggested_modules          |-> OptionalField(row.suggested_modules),
         expected_impact            |-> OptionalField(row.expected_impact),
         status                     |-> row.status,
         hash                       |-> row.hash])

\* SELECT snapshot_id FROM analysis_snapshots WHERE analysis_id = ?, and the
\* like on proposal_evaluations: no ORDER BY, the rows come in the order of
\* the junction table's primary key index
SelectSnapshotIds(t, analysis_id) ==
    IndexOrder({r.snapshot_id : r \in {x \in t.analysis_snapshots :
                                            x.analysis_id = analysis_id}})
SelectEvaluationIds(t, proposal_id) ==
    IndexOrder({r.evaluation_id : r \in {x \in t.proposal_evaluations :
                                            x.proposal_id = proposal_id}})

\* a row of table as its entity; the two kinds with a junction table read
\* their ids first
RowToEntity(t, table, row) ==
    CASE table = "info_snapshots" -> Snapshot_row_to_entity(row)
      [] table = "analyses" ->
            Analysis_row_to_entity(row, SelectSnapshotIds(t, row.analysis_id))
      [] table = "outcomes" -> Outcome_row_to_entity(row)
      [] table = "evaluations" -> Evaluation_row_to_entity(row)
      [] table = "improvement_proposals" ->
            Proposal_row_to_entity(row, SelectEvaluationIds(t, row.proposal_id))

\* [_row_to_entity(row) for row in cursor.fetchall()]: the first row that
\* fails verification raises
RECURSIVE RowsToEntities(_, _, _)
RowsToEntities(t, table, rows) ==
    IF rows = <<>> THEN Return(<<>>)
    ELSE LET first == RowToEntity(t, table, Head(rows))
             rest  == RowsToEntities(t, table, Tail(rows))
         IN  IF first.err # NoError THEN first
             ELSE IF rest.err # NoError THEN rest
             ELSE Return(first.val \o rest.val)

\* cursor.fetchone() of a SELECT on a column: a row it holds, as its entity,
\* or None
FetchOne(t, table, column, value) ==
    LET rows == {r \in t[table] : r[column] = value}
    IN  IF rows = {} THEN Return(<<>>)
        ELSE RowToEntity(t, table, CHOOSE r \in rows : TRUE)

\* get_by_id, get_by_hash and OutcomeRepository.get_by_game_id
get_by_id(t, table, id) == FetchOne(t, table, PrimaryKey(table), id)
get_by_hash(t, table, hash_value) == FetchOne(t, table, "hash", hash_value)

\* a lookup by game that finds nothing
Outcome_get_by_game_id_none(t, game_id) == Return(<<>>)

Outcome_get_by_game_id(t, game_id) == FetchOne(t, "outcomes", "game_id", game_id)

----------------------------------------------------------------------------
(* The insert of each repository and update_status, from the committed      *)
(* database d and the connection's view t to the call's outcome:            *)
(* [db, txn, err, val].                                                     *)

CallOutcome(state, result) ==
    [db |-> state.db, txn |-> state.txn, err |-> result.err, val |-> result.val]

\* the handler finds no hash collision in any message
MentionsUniqueHash_never(message) == FALSE

\* "UNIQUE constraint failed" in str(e) and "hash" in str(e)
MentionsUniqueHash(message) ==
    message \in {UniqueFailed(tb, "hash") : tb \in EntityTables}

SnapshotRow(snapshot) ==
    [snapshot_id    |-> snapshot.snapshot_id,
     game_id        |-> snapshot.game_id,
     collected_at   |-> isoformat(snapshot.collected_at),
     schema_version |-> snapshot.schema_version,
     hash           |-> snapshot.hash]

SnapshotRepository_insert(d, t, snapshot) ==
    LET st == InsertRow(t, "info_snapshots", SnapshotRow(snapshot))
    IN  IF st.error = "none"
        THEN CallOutcome(commit(d, st.t), Return(<<snapshot>>))
        ELSE LET back     == rollback(d, st.t)
                 existing == IF MentionsUniqueHash(st.error)
                             THEN get_by_hash(back.txn, "info_snapshots", snapshot.hash)
                             ELSE Return(<<>>)
             IN  IF existing.err # NoError \/ existing.val # <<>>
                 THEN CallOutcome(back, existing)
                 ELSE CallOutcome(back, Raise(DuplicateEntityError("InfoSnapshot",
                                                               snapshot.hash)))

\* the INSERTs of a junction table's rows, one after another, stopping at
\* the first that fails
RECURSIVE InsertPairs(_, _, _, _)
InsertPairs(t, table, rows, columns) ==
    IF rows = <<>> THEN Ok(t)
    ELSE LET st == InsertPair(t, table, Head(rows), columns)
         IN  IF st.error # "none" THEN st
             ELSE InsertPairs(st.t, table, Tail(rows), columns)

AnalysisRow(analysis) ==
    [analysis_id        |-> analysis.analysis_id,
     created_at         |-> isoformat(analysis.created_at),
     parent_analysis_id |-> Bind(analysis.parent_analysis_id),
     hash               |-> analysis.hash]

AnalysisRepository_insert(d, t, analysis) ==
    LET main  == InsertRow(t, "analyses", AnalysisRow(analysis))
        pairs == [i \in 1..Len(analysis.input_snapshot_ids) |->
                     [analysis_id |-> analysis.analysis_id,
                      snapshot_id |-> analysis.input_snapshot_ids[i]]]
        st    == IF main.error # "none" THEN main
                 ELSE InsertPairs(main.t, "analysis_snapshots", pairs,
                                  "analysis_id, analysis_snapshots.snapshot_id")
    IN  IF st.error = "none"
        THEN CallOutcome(commit(d, st.t), Return(<<analysis>>))
        ELSE CallOutcome(rollback(d, st.t),
                      Raise(DuplicateEntityError("Analysis", analysis.hash)))

OutcomeRow(outcome) ==
    [outcome_id  |-> outcome.outcome_id,
     game_id     |-> outcome.game_id,
     occurred_at |-> isoformat(outcome.occurred_at),
     winner      |-> Bind(outcome.winner),
     hash        |-> outcome.hash]

OutcomeRepository_insert(d, t, outcome) ==
    LET st == InsertRow(t, "outcomes", OutcomeRow(outcome))
    IN  IF st.error = "none"
        THEN CallOutcome(commit(d, st.t), Return(<<outcome>>))
        ELSE CallOutcome(rollback(d, st.t),
                      Raise(DuplicateEntityError("Outcome", outcome.hash)))

EvaluationRow(evaluation) ==
    [evaluation_id |-> evaluation.evaluation_id,
     analysis_id   |-> evaluation.analysis_id,
     game_id       |-> evaluation.game_id,
     scored_at     |-> isoformat(evaluation.scored_at),
     notes         |-> OptionalColumn(evaluation.notes),
     hash          |-> evaluation.hash]

EvaluationRepository_insert(d, t, evaluation) ==
    LET st == InsertRow(t, "evaluations", EvaluationRow(evaluation))
    IN  IF st.error = "none"
        THEN CallOutcome(commit(d, st.t), Return(<<evaluation>>))
        ELSE CallOutcome(rollback(d, st.t),
                      Raise(DuplicateEntityError("Evaluation", evaluation.hash)))

ProposalRow(proposal) ==
    [proposal_id                |-> proposal.proposal_id,
     created_at                 |-> isoformat(proposal.created_at),
     proposal_text              |-> proposal.proposal_text,
     suggested_schema_additions |-> OptionalColumn(proposal.suggested_schema_additions),
     suggested_modules          |-> OptionalColumn(proposal.suggested_modules),
     expected_impact            |-> OptionalColumn(proposal.expected_impact),
     status                     |-> proposal.status,
     hash                       |-> proposal.hash]

ProposalRepository_insert(d, t, proposal) ==
    LET main  == InsertRow(t, "improvement_proposals", ProposalRow(proposal))
        pairs == [i \in 1..Len(proposal.based_on_evaluation_ids) |->
                     [proposal_id   |-> proposal.proposal_id,
                      evaluation_id |-> proposal.based_on_evaluation_ids[i]]]
        st    == IF main.error # "none" THEN main
                 ELSE InsertPairs(main.t, "proposal_evaluations", pairs,
                                  "proposal_id, proposal_evaluations.evaluation_id")
    IN  IF st.error = "none"
        THEN CallOutcome(commit(d, st.t), Return(<<proposal>>))
        ELSE CallOutcome(rollback(d, st.t),
                      Raise(DuplicateEntityError("ImprovementProposal",
                                                 proposal.hash)))

\* ProposalRepository.update_status: the UPDATE, the commit, the re-read.
\* improvement_proposals has no UPDATE trigger, so the UPDATE goes through.
update_status(d, t, proposal_id, new_status) ==
    LET rows == {r \in t.improvement_proposals : r.proposal_id = proposal_id}
        st   == IF rows = {} THEN Ok(t)
                ELSE UpdateRow(t, "improvement_proposals",
                               CHOOSE r \in rows : TRUE, "status", new_status)
    IN  IF st.error # "none"
        THEN [db |-> d, txn |-> st.t, err |-> [type |-> "IntegrityError"],
              val |-> <<>>]
        ELSE LET state == commit(d, st.t)
             IN  CallOutcome(state, get_by_id(state.txn, "improvement_proposals",
                                           proposal_id))

----------------------------------------------------------------------------
(* The SELECTs that return lists.                                           *)

RECURSIVE Orderings(_)
Orderings(S) ==
    IF S = {} THEN {<<>>}
    ELSE UNION {{<<x>> \o q : q \in Orderings(S \ {x})} : x \in S}

\* the orders in which SQLite may return rows under ORDER BY column ASC or
\* DESC (rows with equal keys come in either order); column "" is no ORDER BY
RowOrders(rows, column, descending) ==
    {q \in Orderings(rows) :
        column = "" \/
        \A i, j \in 1..Len(q) :
            i < j => IF descending THEN q[i][column].iso >= q[j][column].iso
                     ELSE q[i][column].iso <= q[j][column].iso}

\* LIMIT limit OFFSET offset
Page(q, limit, offset) ==
    SubSeq(q, offset + 1, IF Len(q) < offset + limit THEN Len(q) ELSE offset + limit)

\* the column get_all orders by, newest first
TimeColumn(table) ==
    CASE table = "info_snapshots"        -> "collected_at"
      [] table = "analyses"              -> "created_at"
      [] table = "outcomes"              -> "occurred_at"
      [] table = "evaluations"           -> "scored_at"
      [] table = "improvement_proposals" -> "created_at"

Limits  == {1, 2}
Offsets == {0, 1}

----------------------------------------------------------------------------
(* The state machine: the calls a single-threaded caller makes on one       *)
(* connection.                                                              *)

NoCall == [op |-> "none", arg |-> <<>>, err |-> NoError, val |-> <<>>]

\* no insert, no read under way
Idle == [op |-> "none"]

Init ==
    /\ focus \in EntityTables
    /\ db = EmptyDb
    /\ txn = EmptyDb
    /\ ret = NoCall
    /\ pc = "idle"
    /\ current_id = None
    /\ lineage = <<>>
    /\ walked = 0
    /\ writer = Idle
    /\ reader = Idle

\* a call that changes the database: its outcome o becomes the state
Mutation(op, arg, o) ==
    /\ pc = "idle"
    /\ ret = NoCall
    /\ writer = Idle
    /\ db' = o.db
    /\ txn' = o.txn
    /\ ret' = [op |-> op, arg |-> arg, err |-> o.err, val |-> o.val]
    /\ UNCHANGED <<writer, reader, focus, pc, current_id, lineage, walked>>

\* a call that only reads: its result r is what the caller gets
Read(op, arg, r) ==
    /\ pc = "idle"
    /\ ret = NoCall
    /\ ret' = [op |-> op, arg |-> arg, err |-> r.err, val |-> r.val]
    /\ UNCHANGED <<writer, reader, focus, db, txn, pc, current_id, lineage, walked>>

InsertSnapshot ==
    \E e \in Snapshots :
        Mutation("SnapshotRepository.insert", e, SnapshotRepository_insert(db, txn, e))

InsertAnalysis ==
    \E e \in Analyses :
        Mutation("AnalysisRepository.insert", e, AnalysisRepository_insert(db, txn, e))

InsertOutcome ==
    \E e \in Outcomes :
        Mutation("OutcomeRepository.insert", e, OutcomeRepository_insert(db, txn, e))

InsertEvaluation ==
    \E e \in Evaluations :
        Mutation("EvaluationRepository.insert", e, EvaluationRepository_insert(db, txn, e))

InsertProposal ==
    \E e \in Proposals :
        Mutation("ProposalRepository.insert", e, ProposalRepository_insert(db, txn, e))

UpdateStatus ==
    \E id \in ProposalIds, new_status \in ProposalStatus :
        Mutation("ProposalRepository.update_status", <<id, new_status>>,
                 update_status(db, txn, id, new_status))

IdsOf(table) ==
    CASE table = "info_snapshots"        -> SnapshotIds
      [] table = "analyses"              -> AnalysisIds
      [] table = "outcomes"              -> OutcomeIds
      [] table = "evaluations"           -> EvaluationIds
      [] table = "improvement_proposals" -> ProposalIds

GetById ==
    \E table \in EntityTables : \E id \in IdsOf(table) :
        Read("get_by_id", <<table, id>>, get_by_id(txn, table, id))

\* SnapshotRepository.get_by_hash and AnalysisRepository.get_by_hash; the
\* other three repositories define no get_by_hash, and the call of an
\* attribute an object does not have raises AttributeError, here with a
\* persisted hash or the hash of an Outcome
GetByHash ==
    \/ \E e \in Snapshots :
          Read("get_by_hash", <<"info_snapshots", e.hash>>,
               get_by_hash(txn, "info_snapshots", e.hash))
    \/ \E e \in Analyses :
          Read("get_by_hash", <<"analyses", e.hash>>,
               get_by_hash(txn, "analyses", e.hash))
    \/ \E table \in {"outcomes", "evaluations", "improvement_proposals"} \cap {focus} :
          \E h \in {r.hash : r \in txn[table]}
                    \cup {Outcome_create("o1", "g1", 1, None).hash} :
              Read("get_by_hash", <<table, h>>,
                   Raise(AttributeError(RepositoryOf(table), "get_by_hash")))

OutcomeGetByGameId ==
    \E g \in GameIds :
        Read("OutcomeRepository.get_by_game_id", g, Outcome_get_by_game_id(txn, g))

\* a SELECT of a list: the rows chosen, in an order q SQLite may give, cut to
\* the page, each through _row_to_entity
ListRead(op, arg, table, rows, column, descending, limit, offset) ==
    \E q \in RowOrders(rows, column, descending) :
        Read(op, arg, RowsToEntities(txn, table, Page(q, limit, offset)))

\* get_all of the repository the run works with
GetAll ==
    \E table \in EntityTables \cap {focus}, limit \in Limits, offset \in Offsets :
        ListRead("get_all", <<table, limit, offset>>, table, txn[table],
                 TimeColumn(table), TRUE, limit, offset)

SnapshotGetByGameId ==
    \E g \in GameIds, limit \in Limits :
        ListRead("SnapshotRepository.get_by_game_id", <<g, limit>>, "info_snapshots",
                 {r \in txn.info_snapshots : r.game_id = g},
                 "collected_at", FALSE, limit, 0)

SnapshotGetLatestByGameId ==
    \E g \in GameIds :
        ListRead("SnapshotRepository.get_latest_by_game_id", g, "info_snapshots",
                 {r \in txn.info_snapshots : r.game_id = g},
                 "collected_at", TRUE, 1, 0)

GetChildren ==
    \E id \in AnalysisIds :
        ListRead("AnalysisRepository.get_children", id, "analyses",
                 {r \in txn.analyses : r.parent_analysis_id = id},
                 "", FALSE, Cardinality(txn.analyses), 0)

GetRoots ==
    \E limit \in Limits :
        ListRead("AnalysisRepository.get_roots", limit, "analyses",
                 {r \in txn.analyses : r.parent_analysis_id = NULL},
                 "created_at", TRUE, limit, 0)

EvaluationGetByAnalysisId ==
    \E id \in AnalysisIds :
        ListRead("EvaluationRepository.get_by_analysis_id", id, "evaluations",
                 {r \in txn.evaluations : r.analysis_id = id},
                 "scored_at", TRUE, Cardinality(txn.evaluations), 0)

EvaluationGetByGameId ==
    \E g \in GameIds :
        ListRead("EvaluationRepository.get_by_game_id", g, "evaluations",
                 {r \in txn.evaluations : r.game_id = g},
                 "scored_at", TRUE, Cardinality(txn.evaluations), 0)

GetByStatus ==
    \E status \in ProposalStatus, limit \in Limits :
        ListRead("ProposalRepository.get_by_status", <<status, limit>>,
                 "improvement_proposals",
                 {r \in txn.improvement_proposals : r.status = status},
                 "created_at", TRUE, limit, 0)

\* AnalysisRepository.get_lineage, one loop iteration at a time
LineageStart ==
    /\ pc = "idle"
    /\ ret = NoCall
    /\ \E id \in AnalysisIds :
        /\ current_id' = id
        /\ ret' = [op |-> "AnalysisRepository.get_lineage", arg |-> id,
                   err |-> NoError, val |-> <<>>]
    /\ pc' = "lineage"
    /\ lineage' = <<>>
    /\ walked' = 0
    /\ UNCHANGED <<writer, reader, focus, db, txn>>

LineageEnd(err, val) ==
    /\ pc' = "idle"
    /\ ret' = [ret EXCEPT !.err = err, !.val = val]
    /\ current_id' = None
    /\ lineage' = <<>>
    /\ walked' = 0

LineageStep ==
    /\ pc = "lineage"
    /\ UNCHANGED <<writer, reader, focus, db, txn>>
    /\ IF current_id = None
       THEN LineageEnd(NoError, reversed(lineage))
       ELSE LET analysis == get_by_id(txn, "analyses", current_id)
            IN  IF analysis.err # NoError THEN LineageEnd(analysis.err, <<>>)
                ELSE IF analysis.val = <<>>
                     THEN LineageEnd(NoError, reversed(lineage))
                ELSE /\ lineage' = IF walked < MaxWalk
                                   THEN Append(lineage, analysis.val[1])
                                   ELSE lineage
                     /\ walked' = IF walked <= MaxWalk THEN walked + 1 ELSE MaxWalk
                     /\ current_id' = analysis.val[1].parent_analysis_id
                     /\ UNCHANGED <<pc, ret>>

\* the caller takes the result of its call and goes on to the next call
Resume ==
    /\ pc = "idle"
    /\ ret # NoCall
    /\ ret' = NoCall
    /\ UNCHANGED <<writer, reader, focus, db, txn, pc, current_id, lineage, walked>>

Next ==
    \/ InsertSnapshot
    \/ InsertAnalysis
    \/ InsertOutcome
    \/ InsertEvaluation
    \/ InsertProposal
    \/ UpdateStatus
    \/ GetById
    \/ GetByHash
    \/ OutcomeGetByGameId
    \/ GetAll
    \/ SnapshotGetByGameId
    \/ SnapshotGetLatestByGameId
    \/ GetChildren
    \/ GetRoots
    \/ EvaluationGetByAnalysisId
    \/ EvaluationGetByGameId
    \/ GetByStatus
    \/ LineageStart
    \/ LineageStep
    \/ Resume

Spec == Init /\ [][Next]_vars

----------------------------------------------------------------------------
(* A client that writes UPDATE and DELETE statements to the tables itself,  *)
(* on a connection of its own that commits each statement that succeeds.    *)

\* values a statement may put into a column, of the column's type
ColumnValues(column) ==
    CASE column = "snapshot_id"        -> SnapshotIds
      [] column = "analysis_id"        -> AnalysisIds
      [] column = "outcome_id"         -> OutcomeIds
      [] column = "evaluation_id"      -> EvaluationIds
      [] column = "proposal_id"        -> ProposalIds
      [] column = "parent_analysis_id" -> AnalysisIds \cup {NULL}
      [] column = "game_id"            -> GameIds
      [] column \in {"collected_at", "created_at", "occurred_at", "scored_at"} ->
            {isoformat(1), isoformat(2)}
      [] column = "winner"             -> {NULL, "home"}
      [] column = "proposal_text"      -> {"t1", "t2"}
      [] column = "status"             -> ProposalStatus
      [] column = "hash"               -> {[sha256 |-> [forged |-> TRUE]]}
      [] OTHER                         -> {NULL, json_dumps("Full")}

\* the columns of an improvement_proposals row, status apart, that hold a
\* value no insert of this run writes
Forged(row) ==
    {c \in DOMAIN row \ {"status"} : \A e \in Proposals : ProposalRow(e)[c] # row[c]}

SqliteError(message) == [type |-> "sqlite3.IntegrityError", message |-> message]

\* conn.execute(statement); conn.commit(): the statement's outcome st
Direct(op, arg, st) ==
    /\ pc = "idle"
    /\ ret = NoCall
    /\ \A r \in st.t.improvement_proposals : Cardinality(Forged(r)) <= MaxForged
    /\ LET state == IF st.error = "none" THEN commit(db, st.t)
                     ELSE [db |-> db, txn |-> st.t]
       IN  /\ db' = state.db
           /\ txn' = state.txn
    /\ ret' = [op |-> op, arg |-> arg,
               err |-> IF st.error = "none" THEN NoError ELSE SqliteError(st.error),
               val |-> <<>>]
    /\ UNCHANGED <<writer, reader, focus, pc, current_id, lineage, walked>>

DirectUpdate ==
    \E table \in Tables : \E old \in txn[table] :
        \E column \in DOMAIN old : \E value \in ColumnValues(column) :
            Direct("UPDATE",
                   [table |-> table, old |-> old, column |-> column, value |-> value],
                   UpdateRow(txn, table, old, column, value))

DirectDelete ==
    \E table \in Tables : \E old \in txn[table] :
        Direct("DELETE", [table |-> table, old |-> old], DeleteRow(txn, table, old))

DirectInit ==
    /\ focus = "raw SQL"
    /\ db = EmptyDb
    /\ txn = EmptyDb
    /\ ret = NoCall
    /\ pc = "idle"
    /\ current_id = None
    /\ lineage = <<>>
    /\ walked = 0
    /\ writer = Idle
    /\ reader = Idle

DirectNext ==
    \/ InsertSnapshot
    \/ InsertAnalysis
    \/ InsertOutcome
    \/ InsertEvaluation
    \/ InsertProposal
    \/ UpdateStatus
    \/ GetById
    \/ DirectUpdate
    \/ DirectDelete
    \/ Resume

DirectSpec == DirectInit /\ [][DirectNext]_vars

----------------------------------------------------------------------------
(* get_lineage over the analyses a caller has inserted.  The loop runs in   *)
(* the caller's thread: an iteration that can run does run.                 *)

LineageInit ==
    /\ focus = "analyses"
    /\ db = EmptyDb
    /\ txn = EmptyDb
    /\ ret = NoCall
    /\ pc = "idle"
    /\ current_id = None
    /\ lineage = <<>>
    /\ walked = 0
    /\ writer = Idle
    /\ reader = Idle

LineageNext ==
    \/ InsertSnapshot
    \/ InsertAnalysis
    \/ LineageStart
    \/ LineageStep
    \/ Resume

LineageSpec == LineageInit /\ [][LineageNext]_vars /\ WF_vars(LineageStep)

----------------------------------------------------------------------------
(* Properties of the repositories.                                          *)

\* the rows of a table whose column holds value
RowsWith(d, table, column, value) == {r \in d[table] : r[column] = value}

\* C1: SnapshotRepository.insert is idempotent on hash.  An insert whose
\* content hash is already persisted, under whatever snapshot_id the caller
\* gave this time, raises nothing, returns the record persisted first (its
\* snapshot_id, not the caller's) and leaves the table as it was; an insert
\* of new content under a new id persists its row and returns its own id;
\* and no two rows of info_snapshots ever share a hash.
C1_SnapshotInsertIdempotent ==
    [][ret'.op = "SnapshotRepository.insert" =>
          LET e      == ret'.arg
              before == RowsWith(db, "info_snapshots", "hash", e.hash)
              after  == RowsWith(db', "info_snapshots", "hash", e.hash)
          IN  /\ before # {} =>
                    /\ ret'.err = NoError
                    /\ Len(ret'.val) = 1
                    /\ \A x \in before : ret'.val[1].snapshot_id = x.snapshot_id
                    /\ ret'.val[1].hash = e.hash
                    /\ db' = db
              /\ (before = {}
                  /\ RowsWith(db, "info_snapshots", "snapshot_id", e.snapshot_id) = {}) =>
                    /\ ret'.err = NoError
                    /\ ret'.val = <<e>>
                    /\ db'.info_snapshots = db.info_snapshots \cup {SnapshotRow(e)}
              /\ ret'.err = NoError => Cardinality(after) = 1
              /\ \A x, y \in db'.info_snapshots : x.hash = y.hash => x = y
    ]_vars

\* C1's case: an insert under a second snapshot_id of content already
\* persisted has returned the first record
C1_Witness ==
    /\ ret.op = "SnapshotRepository.insert"
    /\ ret.err = NoError
    /\ Len(ret.val) = 1
    /\ ret.val[1].snapshot_id # ret.arg.snapshot_id
    /\ ret.val[1].hash = ret.arg.hash
    /\ Cardinality(db.info_snapshots) = 1

\* C2: the store is append-only through the repository interface.  Over any
\* step of the repositories' operations, every persisted row of every table
\* is still persisted with the same value in every column, except that the
\* status column of an improvement_proposals row may differ; and the row is
\* still the only one under its primary key.
C2_AppendOnly ==
    [][\A table \in Tables : \A r \in db[table] :
          /\ \E x \in db'[table] :
                IF table = "improvement_proposals"
                THEN [x EXCEPT !.status = r.status] = r
                ELSE x = r
          /\ table \in EntityTables =>
                Cardinality(RowsWith(db', table, PrimaryKey(table),
                                     r[PrimaryKey(table)])) = 1
    ]_vars

\* C2's case: with proposals and their junction rows persisted, update_status
\* has changed a status
C2_Witness ==
    /\ ret.op = "ProposalRepository.update_status"
    /\ ret.err = NoError
    /\ Len(ret.val) = 1
    /\ ret.val[1].status = IMPLEMENTED
    /\ db.proposal_evaluations # {}
    /\ Cardinality(db.improvement_proposals) = 2

\* the six tables with an update and a delete trigger
ImmutableTables == Tables \ {"improvement_proposals"}

C4_ProposalOnlyStatusMutable ==
    [][(/\ ret'.op \in {"UPDATE", "DELETE"}
        /\ ret'.arg.table = "improvement_proposals"
        /\ \/ ret'.op = "DELETE"
           \/ /\ ret'.arg.column # "status"
              /\ ret'.arg.value # ret'.arg.old[ret'.arg.column]) =>
          /\ ret'.err # NoError
          /\ db' = db
    ]_vars

\* the entity kind a table holds
KindOf(table) ==
    CASE table = "info_snapshots"        -> "InfoSnapshot"
      [] table = "analyses"              -> "Analysis"
      [] table = "outcomes"              -> "Outcome"
      [] table = "evaluations"           -> "Evaluation"
      [] table = "improvement_proposals" -> "ImprovementProposal"

\* C5: round-trip integrity.  After a successful insert of an entity built
\* by its factory, get_by_id of a persisted id raises nothing and returns
\* one entity, whose recomputed hash equals its hash and the stored hash.
C5_RoundTrip ==
    (ret.op = "get_by_id" /\ pc = "idle") =>
        LET table == ret.arg[1]
            rows  == RowsWith(db, table, PrimaryKey(table), ret.arg[2])
        IN  rows # {} =>
              /\ ret.err = NoError
              /\ Len(ret.val) = 1
              /\ HashOf(KindOf(table), ret.val[1]) = ret.val[1].hash
              /\ \A r \in rows : r.hash = ret.val[1].hash

\* the operations that read entities and write nothing
ReadOps ==
    {"get_by_id", "get_by_hash", "get_all",
     "SnapshotRepository.get_by_game_id", "SnapshotRepository.get_latest_by_game_id",
     "AnalysisRepository.get_children", "AnalysisRepository.get_roots",
     "AnalysisRepository.get_lineage", "OutcomeRepository.get_by_game_id",
     "EvaluationRepository.get_by_analysis_id", "EvaluationRepository.get_by_game_id",
     "ProposalRepository.get_by_status"}

\* the table whose rows a call's returned entities were read from
ReadTable(r) ==
    CASE r.op \in {"get_by_id", "get_by_hash", "get_all"} -> r.arg[1]
      [] r.op \in {"SnapshotRepository.get_by_game_id",
                   "SnapshotRepository.get_latest_by_game_id"} -> "info_snapshots"
      [] r.op \in {"AnalysisRepository.get_children", "AnalysisRepository.get_roots",
                   "AnalysisRepository.get_lineage"} -> "analyses"
      [] r.op = "OutcomeRepository.get_by_game_id" -> "outcomes"
      [] r.op \in {"EvaluationRepository.get_by_analysis_id",
                   "EvaluationRepository.get_by_game_id"} -> "evaluations"
      [] r.op \in {"ProposalRepository.get_by_status",
                   "ProposalRepository.update_status"} -> "improvement_proposals"
      [] OTHER -> "none"

C7_OutcomeUniquePerGame ==
    [][/\ ret'.op = "OutcomeRepository.insert" =>
            LET e     == ret'.arg
                first == RowsWith(db, "outcomes", "game_id", e.game_id)
            IN  first # {} =>
                  /\ ret'.err.type = "DuplicateEntityError"
                  /\ ret'.val = <<>>
                  /\ db' = db
                  /\ Outcome_get_by_game_id(txn', e.game_id).err = NoError
                  /\ \A x \in first :
                        /\ Len(Outcome_get_by_game_id(txn', e.game_id).val) = 1
                        /\ Outcome_get_by_game_id(txn', e.game_id).val[1].outcome_id
                              = x.outcome_id
       /\ \A x, y \in db'.outcomes : x.game_id = y.game_id => x = y
    ]_vars

\* C7's case: an Outcome of other content under another id has been refused
\* for a game that has its Outcome
C7_Witness ==
    /\ ret.op = "OutcomeRepository.insert"
    /\ ret.err.type = "DuplicateEntityError"
    /\ RowsWith(db, "outcomes", "hash", ret.arg.hash) = {}
    /\ RowsWith(db, "outcomes", "outcome_id", ret.arg.outcome_id) = {}
    /\ RowsWith(db, "outcomes", "game_id", ret.arg.game_id) # {}

\* the table an insert operation writes its main row to
InsertTable(op) ==
    CASE op = "SnapshotRepository.insert"   -> "info_snapshots"
      [] op = "AnalysisRepository.insert"   -> "analyses"
      [] op = "OutcomeRepository.insert"    -> "outcomes"
      [] op = "EvaluationRepository.insert" -> "evaluations"
      [] op = "ProposalRepository.insert"   -> "improvement_proposals"
      [] OTHER -> "none"

\* C8: duplicate content is rejected, not deduplicated, for the kinds other
\* than InfoSnapshot.  An insert of an Analysis, Outcome, Evaluation or
\* ImprovementProposal whose hash is already persisted raises
\* DuplicateEntityError, returns nothing, and leaves every table unchanged.
C8_DuplicateHashRejected ==
    [][(/\ InsertTable(ret'.op) \notin {"none", "info_snapshots"}
        /\ RowsWith(db, InsertTable(ret'.op), "hash", ret'.arg.hash) # {}) =>
          /\ ret'.err = DuplicateEntityError(KindOf(InsertTable(ret'.op)), ret'.arg.hash)
          /\ ret'.val = <<>>
          /\ db' = db
    ]_vars

\* C8's case: an Analysis with inputs, under a new analysis_id, has been
\* refused because its hash is persisted
C8_Witness ==
    /\ ret.op = "AnalysisRepository.insert"
    /\ ret.err.type = "DuplicateEntityError"
    /\ ret.arg.input_snapshot_ids # <<>>
    /\ RowsWith(db, "analyses", "hash", ret.arg.hash) # {}
    /\ RowsWith(db, "analyses", "analysis_id", ret.arg.analysis_id) = {}

\* the junction rows an Analysis or ImprovementProposal insert writes
JoinRows(op, e) ==
    IF op = "AnalysisRepository.insert"
    THEN {[analysis_id |-> e.analysis_id, snapshot_id |-> id] :
             id \in Range(e.input_snapshot_ids)}
    ELSE {[proposal_id |-> e.proposal_id, evaluation_id |-> id] :
             id \in Range(e.based_on_evaluation_ids)}

\* C9: insert atomicity for Analysis and ImprovementProposal.  After an
\* insert that returned, the main row and every junction row of the entity
\* are persisted; after an insert that raised, no row of any table has been
\* added and the connection holds no uncommitted write that a later commit
\* could persist.
C9_InsertAtomic ==
    [][ret'.op \in {"AnalysisRepository.insert", "ProposalRepository.insert"} =>
          LET e     == ret'.arg
              main  == InsertTable(ret'.op)
              join  == IF main = "analyses" THEN "analysis_snapshots"
                       ELSE "proposal_evaluations"
              row   == IF main = "analyses" THEN AnalysisRow(e) ELSE ProposalRow(e)
          IN  /\ txn' = db'
              /\ ret'.err = NoError =>
                    /\ db'[main] = db[main] \cup {row}
                    /\ row \notin db[main]
                    /\ db'[join] = db[join] \cup JoinRows(ret'.op, e)
              /\ ret'.err # NoError => db' = db
    ]_vars

\* C9's case: an Analysis insert has failed on its second junction row,
\* after the main row and the first junction row were written
C9_Witness ==
    /\ ret.op = "AnalysisRepository.insert"
    /\ ret.err.type = "DuplicateEntityError"
    /\ Len(ret.arg.input_snapshot_ids) = 2
    /\ RowsWith(db, "info_snapshots", "snapshot_id", ret.arg.input_snapshot_ids[1]) # {}
    /\ RowsWith(db, "info_snapshots", "snapshot_id", ret.arg.input_snapshot_ids[2]) = {}
    /\ RowsWith(db, "analyses", "hash", ret.arg.hash) = {}
    /\ RowsWith(db, "analyses", "analysis_id", ret.arg.analysis_id) = {}
    /\ ret.arg.parent_analysis_id = None
    /\ txn = db

\* C10: get_lineage terminates for every analysis id and every store
\* state: a walk that has started comes to return or raise.
C10_LineageTerminates == (pc = "lineage") ~> (pc = "idle")

\* the ids from id up its parent pointers in d, id first, for at most fuel
\* nodes
RECURSIVE ParentChain(_, _, _)
ParentChain(d, id, fuel) ==
    LET rows == RowsWith(d, "analyses", "analysis_id", id)
    IN  IF fuel = 0 \/ rows = {} THEN <<>>
        ELSE <<id>> \o ParentChain(d, (CHOOSE r \in rows : TRUE).parent_analysis_id,
                                   fuel - 1)

\* C11: lineage ordering.  For a persisted analysis whose parent chain ends
\* at an analysis with a null parent, get_lineage returns exactly that chain,
\* root first and the queried analysis last, each element the parent of the
\* next, none twice; for an id that is not persisted it returns the empty
\* list.
C11_LineageOrdering ==
    (pc = "idle" /\ ret.op = "AnalysisRepository.get_lineage") =>
        LET n     == Cardinality(db.analyses)
            chain == ParentChain(db, ret.arg, n + 1)
        IN  Len(chain) <= n =>
              /\ ret.err = NoError
              /\ [i \in 1..Len(ret.val) |-> ret.val[i].analysis_id] = reversed(chain)
              /\ \A i \in 1..Len(ret.val) :
                    ret.val[i].parent_analysis_id =
                        IF i = 1 THEN None ELSE ret.val[i - 1].analysis_id
              /\ \A i, j \in 1..Len(ret.val) :
                    ret.val[i].analysis_id = ret.val[j].analysis_id => i = j

\* C12: AnalysisRepository.insert of an analysis whose parent_analysis_id
\* is set but references no already-persisted analysis is rejected and
\* persists nothing; and in every state each non-null parent_analysis_id
\* references a persisted analysis.
C12_ParentAlreadyPersisted ==
    [][/\ (/\ ret'.op = "AnalysisRepository.insert"
           /\ ret'.arg.parent_analysis_id # None
           /\ RowsWith(db, "analyses", "analysis_id",
                       ret'.arg.parent_analysis_id) = {}) =>
            (ret'.err # NoError /\ db' = db)
       /\ \A r \in db'.analyses :
            \/ r.parent_analysis_id = NULL
            \/ RowsWith(db', "analyses", "analysis_id", r.parent_analysis_id) # {}
    ]_vars

\* C13: update_status(id, s) on a persisted proposal changes only that
\* proposal's status column to s: its other columns, its hash, its
\* proposal_evaluations rows, every other proposal and every other table are
\* unchanged; and it returns the re-read proposal with status s, whose hash
\* verifies.
C13_UpdateStatusFrame ==
    [][ret'.op = "ProposalRepository.update_status" =>
          \A r \in RowsWith(db, "improvement_proposals", "proposal_id", ret'.arg[1]) :
              /\ db' = [db EXCEPT !.improvement_proposals =
                            (@ \ {r}) \cup {[r EXCEPT !.status = ret'.arg[2]]}]
              /\ ret'.err = NoError
              /\ Len(ret'.val) = 1
              /\ ret'.val[1].proposal_id = r.proposal_id
              /\ ret'.val[1].status = ret'.arg[2]
              /\ ret'.val[1].hash = r.hash
              /\ verify_hash("ImprovementProposal", ret'.val[1])
    ]_vars

\* C14: proposal status transitions are unconstrained.  An inserted proposal
\* is in status pending, and update_status(id, t) on a persisted proposal,
\* whatever its status, succeeds and leaves it in status t.
C14_AnyStatusTransition ==
    [][/\ (ret'.op = "ProposalRepository.insert" /\ ret'.err = NoError) =>
            \A r \in RowsWith(db', "improvement_proposals", "proposal_id",
                              ret'.arg.proposal_id) : r.status = PENDING
       /\ ret'.op = "ProposalRepository.update_status" =>
            \A r \in RowsWith(db, "improvement_proposals", "proposal_id", ret'.arg[1]) :
                /\ ret'.err = NoError
                /\ \A x \in RowsWith(db', "improvement_proposals", "proposal_id",
                                      ret'.arg[1]) : x.status = ret'.arg[2]
    ]_vars

----------------------------------------------------------------------------
(* Hashing as a function: the hashes of two entities of one kind.           *)

HashTimes == {1, 2}
HashDicts == {None, "Empty", AB, BA}

\* entities of a kind, from the factory and, for a proposal, after any
\* status update
HashInputs(kind) ==
    CASE kind = "InfoSnapshot" ->
            {InfoSnapshot_create(id, g, at, "1") :
                id \in SnapshotIds, g \in {"g1"}, at \in HashTimes}
      [] kind = "Analysis" ->
            {Analysis_create(id, now, <<"s1">>, parent) :
                id \in AnalysisIds, now \in HashTimes, parent \in {None, "a1"}}
      [] kind = "Outcome" ->
            {Outcome_create(id, "g1", at, winner) :
                id \in OutcomeIds, at \in HashTimes, winner \in Winners}
      [] kind = "Evaluation" ->
            {Evaluation_create(id, now, "a1", "g1", notes) :
                id \in EvaluationIds, now \in HashTimes, notes \in HashDicts}
      [] kind = "ImprovementProposal" ->
            {[ImprovementProposal_create(x[1], x[2], <<"e1">>, "t1", x[3], None, None)
                 EXCEPT !.status = x[4]] :
                x \in {"p1"} \X HashTimes \X {None, AB, BA} \X {PENDING, ACCEPTED}}

Kinds == {"InfoSnapshot", "Analysis", "Outcome", "Evaluation", "ImprovementProposal"}

HashInit ==
    /\ focus = "hashing"
    /\ db = EmptyDb
    /\ txn = EmptyDb
    /\ ret = NoCall
    /\ pc = "idle"
    /\ current_id = None
    /\ lineage = <<>>
    /\ walked = 0
    /\ writer = Idle
    /\ reader = Idle

\* compute_*_hash of two entities of one kind
ComputeHashes ==
    /\ pc = "idle"
    /\ ret = NoCall
    /\ \E kind \in Kinds : \E e1, e2 \in HashInputs(kind) :
          ret' = [op |-> "compute_hash", arg |-> <<kind, e1, e2>>, err |-> NoError,
                  val |-> <<HashOf(kind, e1), HashOf(kind, e2)>>]
    /\ UNCHANGED <<writer, reader, focus, db, txn, pc, current_id, lineage, walked>>

HashNext ==
    \/ ComputeHashes
    \/ Resume

HashSpec == HashInit /\ [][HashNext]_vars

\* equality of two Python values: two dicts are equal when they have the
\* same items, in whatever order
PyEq(v, w) ==
    IF v \in Dicts /\ w \in Dicts THEN Range(items(v)) = Range(items(w)) ELSE v = w

\* the hashed fields of a kind
HashedFields(kind) ==
    CASE kind = "InfoSnapshot"        -> {"game_id", "collected_at", "schema_version"}
      [] kind = "Analysis"            -> {"parent_analysis_id", "input_snapshot_ids"}
      [] kind = "Outcome"             -> {"game_id", "occurred_at", "winner"}
      [] kind = "Evaluation"          -> {"analysis_id", "game_id", "notes"}
      [] kind = "ImprovementProposal" ->
            {"based_on_evaluation_ids", "proposal_text",
             "suggested_schema_additions", "suggested_modules", "expected_impact"}

\* the fields whose values are dicts or None
DictFields == {"notes", "suggested_schema_additions", "suggested_modules",
               "expected_impact"}

\* C15: the content hash depends only on the kind's hashed fields.  Two
\* entities of one kind whose hashed fields are equal have equal hashes,
\* whatever the key order of their maps, their ids, their generated
\* timestamps and a proposal's status.
C15_HashOfHashedFieldsOnly ==
    ret.op = "compute_hash" =>
        LET kind == ret.arg[1]
            e1   == ret.arg[2]
            e2   == ret.arg[3]
            same == \A f \in HashedFields(kind) :
                        IF f \in DictFields THEN PyEq(e1[f], e2[f]) ELSE e1[f] = e2[f]
        IN  same => ret.val[1] = ret.val[2]

\* C15's case: two evaluations that differ in id, scored_at and the key
\* order of notes have one hash
C15_Witness ==
    /\ ret.op = "compute_hash"
    /\ ret.arg[1] = "Evaluation"
    /\ ret.arg[2].evaluation_id # ret.arg[3].evaluation_id
    /\ ret.arg[2].scored_at # ret.arg[3].scored_at
    /\ ret.arg[2].notes = AB
    /\ ret.arg[3].notes = BA
    /\ ret.val[1] = ret.val[2]

\* C16: hash lookup for all five kinds.  get_by_hash of a repository, for a
\* hash persisted by a successful insert, returns the one persisted record
\* with that hash (its id and exactly that hash); for a hash not persisted
\* it returns not-found; and it raises nothing.
C16_GetByHashAllKinds ==
    ret.op = "get_by_hash" =>
        LET table == ret.arg[1]
            rows  == RowsWith(db, table, "hash", ret.arg[2])
        IN  /\ ret.err = NoError
            /\ rows = {} => ret.val = <<>>
            /\ \A r \in rows :
                  /\ Len(ret.val) = 1
                  /\ ret.val[1][PrimaryKey(table)] = r[PrimaryKey(table)]
                  /\ ret.val[1].hash = ret.arg[2]

----------------------------------------------------------------------------
(* Two connections to the same database file.  One runs an insert of a      *)
(* record that has join rows, statement by statement: the INSERT of the     *)
(* main row, one INSERT per join row, then the commit, or the rollback at   *)
(* the first statement that fails.  The other runs reads, SELECT by SELECT: *)
(* the main rows first, then for each main row its join ids.  txn is what   *)
(* the writing connection sees, db what is committed.                       *)

\* a reader that shares the writer's connection
ReaderView_shared == txn

\* what a second connection sees: the committed rows
ReaderView == db

\* the row insert writes for an entity of a table that has a junction table
MainRow(table, e) == IF table = "analyses" THEN AnalysisRow(e) ELSE ProposalRow(e)

\* the join ids of an entity, as the caller gave them
JoinIdsOf(table, e) ==
    IF table = "analyses" THEN e.input_snapshot_ids ELSE e.based_on_evaluation_ids

ConcInit ==
    /\ focus = "concurrent"
    /\ db = EmptyDb
    /\ txn = EmptyDb
    /\ ret = NoCall
    /\ pc = "idle"
    /\ current_id = None
    /\ lineage = <<>>
    /\ walked = 0
    /\ writer = Idle
    /\ reader = Idle

\* insert is called: nothing is executed yet
WriterStart ==
    /\ writer = Idle
    /\ ret = NoCall
    /\ \/ \E e \in Analyses :
              writer' = [op |-> "insert", table |-> "analyses", e |-> e, next |-> 0]
       \/ \E e \in Proposals :
              writer' = [op |-> "insert", table |-> "improvement_proposals",
                         e |-> e, next |-> 0]
    /\ UNCHANGED <<focus, db, txn, ret, pc, current_id, lineage, walked, reader>>

\* the next INSERT of the insert under way: the main row, then the join rows
\* one by one; a statement that fails takes the except path, which rolls back
WriterStatement ==
    /\ writer # Idle
    /\ writer.next <= Len(JoinIdsOf(writer.table, writer.e))
    /\ LET e  == writer.e
           i  == writer.next
           st == IF i = 0 THEN InsertRow(txn, writer.table, MainRow(writer.table, e))
                 ELSE IF writer.table = "analyses"
                 THEN InsertPair(txn, "analysis_snapshots",
                                 [analysis_id |-> e.analysis_id,
                                  snapshot_id |-> e.input_snapshot_ids[i]],
                                 "analysis_id, analysis_snapshots.snapshot_id")
                 ELSE InsertPair(txn, "proposal_evaluations",
                                 [proposal_id   |-> e.proposal_id,
                                  evaluation_id |-> e.based_on_evaluation_ids[i]],
                                 "proposal_id, proposal_evaluations.evaluation_id")
       IN  IF st.error = "none"
           THEN /\ txn' = st.t
                /\ writer' = [writer EXCEPT !.next = @ + 1]
                /\ UNCHANGED db
           ELSE /\ db' = rollback(db, st.t).db
                /\ txn' = rollback(db, st.t).txn
                /\ writer' = Idle
    /\ UNCHANGED <<focus, ret, pc, current_id, lineage, walked, reader>>

\* self._conn.commit() after the last INSERT
WriterCommit ==
    /\ writer # Idle
    /\ writer.next = Len(JoinIdsOf(writer.table, writer.e)) + 1
    /\ db' = commit(db, txn).db
    /\ txn' = commit(db, txn).txn
    /\ writer' = Idle
    /\ UNCHANGED <<focus, ret, pc, current_id, lineage, walked, reader>>

\* a read is called and runs its first SELECT, of main rows; rows is what
\* that SELECT finds.  get_lineage has not selected anything yet.
ReaderCall(op, table, rows, next) ==
    /\ reader = Idle
    /\ reader' = [op |-> op, table |-> table, pending |-> rows, seen |-> {},
                  next |-> next, err |-> NoError]
    /\ UNCHANGED <<focus, db, txn, ret, pc, current_id, lineage, walked, writer>>

\* get_by_id, get_all, get_children, get_roots and get_lineage
ReaderStart ==
    \/ \E id \in AnalysisIds :
           ReaderCall("get_by_id", "analyses",
                      RowsWith(ReaderView, "analyses", "analysis_id", id), None)
    \/ \E id \in ProposalIds :
           ReaderCall("get_by_id", "improvement_proposals",
                      RowsWith(ReaderView, "improvement_proposals", "proposal_id", id),
                      None)
    \/ \E table \in {"analyses", "improvement_proposals"} :
           ReaderCall("get_all", table, ReaderView[table], None)
    \/ \E id \in AnalysisIds :
           ReaderCall("get_children", "analyses",
                      RowsWith(ReaderView, "analyses", "parent_analysis_id", id), None)
    \/ ReaderCall("get_roots", "analyses",
                  RowsWith(ReaderView, "analyses", "parent_analysis_id", NULL), None)
    \/ \E id \in AnalysisIds : ReaderCall("get_lineage", "analyses", {}, id)

\* get_lineage: the SELECT of the main row of the next analysis of the chain
ReaderSelectMain ==
    /\ reader # Idle
    /\ reader.next # None
    /\ reader.pending = {}
    /\ LET rows == RowsWith(ReaderView, "analyses", "analysis_id", reader.next)
       IN  reader' = [reader EXCEPT !.pending = rows,
                                    !.next = IF rows = {} THEN None ELSE @]
    /\ UNCHANGED <<focus, db, txn, ret, pc, current_id, lineage, walked, writer>>

\* the SELECT of the join ids of one main row already read, and the entity
\* built from the two; a hash mismatch raises and ends the read
ReaderSelectJoin ==
    /\ reader # Idle
    /\ \E row \in reader.pending :
           LET ids    == IF reader.table = "analyses"
                         THEN SelectSnapshotIds(ReaderView, row.analysis_id)
                         ELSE SelectEvaluationIds(ReaderView, row.proposal_id)
               entity == RowToEntity(ReaderView, reader.table, row)
               item   == [row |-> row, ids |-> ids, entity |-> entity.val]
           IN  reader' =
                   IF entity.err # NoError
                   THEN [reader EXCEPT !.pending = {}, !.next = None,
                                       !.seen = @ \cup {item}, !.err = entity.err]
                   ELSE [reader EXCEPT !.pending = @ \ {row},
                                       !.seen = @ \cup {item},
                                       !.next = IF reader.op = "get_lineage"
                                                THEN Fetch(row.parent_analysis_id)
                                                ELSE None]
    /\ UNCHANGED <<focus, db, txn, ret, pc, current_id, lineage, walked, writer>>

\* the read returns (or raises) and its caller goes on
ReaderReturn ==
    /\ reader # Idle
    /\ reader.pending = {}
    /\ reader.next = None
    /\ reader' = Idle
    /\ UNCHANGED <<focus, db, txn, ret, pc, current_id, lineage, walked, writer>>

ConcNext ==
    \/ InsertSnapshot
    \/ InsertOutcome
    \/ InsertEvaluation
    \/ Resume
    \/ WriterStart
    \/ WriterStatement
    \/ WriterCommit
    \/ ReaderStart
    \/ ReaderSelectMain
    \/ ReaderSelectJoin
    \/ ReaderReturn

ConcSpec == ConcInit /\ [][ConcNext]_vars

\* C17: a reader on another connection never observes a partial write.  Every
\* main row a read has selected is a committed row, the join ids the read
\* selected for it are all the join ids its insert was given, never a part
\* of them, and the entity built from them carries all of them; the rows of
\* an insert under way or rolled back are never selected.
C17_NoPartialWriteObserved ==
    reader # Idle =>
        /\ reader.pending \subseteq db[reader.table]
        /\ \A item \in reader.seen :
               LET e == CHOOSE x \in (IF reader.table = "analyses" THEN Analyses
                                       ELSE Proposals) :
                            MainRow(reader.table, x) = item.row
               IN  /\ item.row \in db[reader.table]
                   /\ Range(item.ids) = Range(JoinIdsOf(reader.table, e))
                   /\ \A x \in Range(item.entity) :
                          Range(JoinIdsOf(reader.table, x))
                              = Range(JoinIdsOf(reader.table, e))

\* a read has selected a main row and its two join ids while an insert on
\* the other connection has written its main row and a join row, uncommitted
C17_Witness ==
    /\ reader # Idle
    /\ writer # Idle
    /\ writer.next >= 2
    /\ txn # db
    /\ \E item \in reader.seen : Len(item.ids) = 2

\* C18: lookups signal absence by value.  A lookup that no persisted record
\* matches raises nothing and returns None or the empty list: get_by_id and
\* get_by_hash of every repository, OutcomeRepository.get_by_game_id,
\* SnapshotRepository.get_latest_by_game_id and the list lookups; and
\* update_status on an unknown proposal id returns None and changes no row.
C18_AbsenceByValue ==
    [][LET op == ret'.op
           a  == ret'.arg
           matching ==
               CASE op = "get_by_id" -> RowsWith(db, a[1], PrimaryKey(a[1]), a[2])
                 [] op = "get_by_hash" -> RowsWith(db, a[1], "hash", a[2])
                 [] op = "get_all" -> db[a[1]]
                 [] op = "OutcomeRepository.get_by_game_id" ->
                        RowsWith(db, "outcomes", "game_id", a)
                 [] op = "SnapshotRepository.get_latest_by_game_id" ->
                        RowsWith(db, "info_snapshots", "game_id", a)
                 [] op = "SnapshotRepository.get_by_game_id" ->
                        RowsWith(db, "info_snapshots", "game_id", a[1])
                 [] op = "AnalysisRepository.get_children" ->
                        RowsWith(db, "analyses", "parent_analysis_id", a)
                 [] op = "AnalysisRepository.get_roots" ->
                        RowsWith(db, "analyses", "parent_analysis_id", NULL)
                 [] op = "EvaluationRepository.get_by_analysis_id" ->
                        RowsWith(db, "evaluations", "analysis_id", a)
                 [] op = "EvaluationRepository.get_by_game_id" ->
                        RowsWith(db, "evaluations", "game_id", a)
                 [] op = "ProposalRepository.get_by_status" ->
                        RowsWith(db, "improvement_proposals", "status", a[1])
                 [] op = "ProposalRepository.update_status" ->
                        RowsWith(db, "improvement_proposals", "proposal_id", a[1])
                 [] OTHER -> {None}
       IN  (ret = NoCall /\ ret' # NoCall /\ matching = {}) =>
               /\ ret'.err = NoError
               /\ ret'.val = <<>>
               /\ db' = db]_vars

\* C19: a hash mismatch detected on a read raises HashMismatchError carrying,
\* for each of the five kinds, the entity kind, the actual id of the
\* offending entity, the stored hash as expected and the recomputed hash as
\* actual.  Stated on get_by_id, whose argument is the id of the one row read.
C19_HashMismatchErrorFields ==
    (ret.op = "get_by_id" /\ ret.err.type = "HashMismatchError") =>
        LET table == ret.arg[1]
            id    == ret.arg[2]
        IN  /\ ret.err.entity_type = KindOf(table)
            /\ ret.err.entity_id = id
            /\ \A row \in RowsWith(db, table, PrimaryKey(table), id) :
                   /\ ret.err.expected = row.hash
                   /\ \A r \in {RowToEntity(db, table, row)} :
                          ret.err.actual = r.err.actual
            /\ ret.err.actual # ret.err.expected

\* C20: an insert raises DuplicateEntityError only for a true duplicate: a
\* record with the same hash, the same primary id or (Outcome) the same
\* game_id is already persisted, or a join-row pair is written twice.  An
\* insert rejected for another reason, such as a reference to a parent
\* analysis, snapshot, analysis, outcome game or evaluation that does not
\* exist, is not reported as a duplicate.
C20_DuplicateOnlyForDuplicates ==
    [][(/\ ret = NoCall
        /\ InsertTable(ret'.op) # "none"
        /\ ret'.err.type = "DuplicateEntityError") =>
          LET table == InsertTable(ret'.op)
              e     == ret'.arg
              ids   == CASE table = "analyses" -> e.input_snapshot_ids
                         [] table = "improvement_proposals" -> e.based_on_evaluation_ids
                         [] OTHER -> <<>>
          IN  \/ \E r \in db[table] :
                     \/ r.hash = e.hash
                     \/ r[PrimaryKey(table)] = e[PrimaryKey(table)]
                     \/ table = "outcomes" /\ r.game_id = e.game_id
              \/ Cardinality(Range(ids)) # Len(ids)]_vars

\* C21: no hash/content skew can be persisted.  Every entity a create
\* factory returns carries the canonical hash of its hashed fields, and an
\* insert that is accepted leaves in its table only rows whose hash column is
\* the canonical hash of the row's content, so that an entity built another
\* way, with a hash that does not match, is not accepted by insert.
C21_NoSkewPersisted ==
    [][(ret = NoCall /\ InsertTable(ret'.op) # "none" /\ ret'.err = NoError) =>
          LET table == InsertTable(ret'.op)
          IN  /\ \A e \in Snapshots :
                     e = InfoSnapshot_create(e.snapshot_id, e.game_id, e.collected_at,
                                             e.schema_version)
                         => verify_hash("InfoSnapshot", e)
              /\ \A row \in db'[table] : RowToEntity(db', table, row).err = NoError]_vars

\* C22: get_children(id) returns exactly the persisted analyses whose
\* parent_analysis_id is id, each once: never the analysis id itself, and
\* the empty list when id has no children or is not persisted.  It raises
\* nothing.
C22_GetChildrenExact ==
    ret.op = "AnalysisRepository.get_children" =>
        LET id   == ret.arg
            rows == RowsWith(db, "analyses", "parent_analysis_id", id)
        IN  /\ ret.err = NoError
            /\ Len(ret.val) = Cardinality(rows)
            /\ {e.analysis_id : e \in Range(ret.val)} = {r.analysis_id : r \in rows}
            /\ \A e \in Range(ret.val) :
                   e.parent_analysis_id = id /\ e.analysis_id # id

\* C23: get_roots(limit) raises nothing and returns only analyses with a
\* null parent_analysis_id, at most limit of them, most recent created_at
\* first, and every root when the store holds at most limit roots; the first
\* element of every non-empty get_lineage result is such a root.
C23_GetRoots ==
    /\ ret.op = "AnalysisRepository.get_roots" =>
           LET limit == ret.arg
               roots == RowsWith(db, "analyses", "parent_analysis_id", NULL)
           IN  /\ ret.err = NoError
               /\ Len(ret.val) <= limit
               /\ \A i \in 1..Len(ret.val) :
                      /\ ret.val[i].parent_analysis_id = None
                      /\ AnalysisRow(ret.val[i]) \in roots
                      /\ \A j \in 1..Len(ret.val) :
                             i < j => /\ ret.val[i].created_at >= ret.val[j].created_at
                                      /\ ret.val[i].analysis_id # ret.val[j].analysis_id
               /\ Cardinality(roots) <= limit => Len(ret.val) = Cardinality(roots)
    /\ (ret.op = "AnalysisRepository.get_lineage" /\ pc = "idle" /\ ret.val # <<>>) =>
           AnalysisRow(ret.val[1]) \in RowsWith(db, "analyses", "parent_analysis_id", NULL)

\* C24: get_all(limit, offset) of each repository raises nothing and returns
\* at most limit entities, the rows ranked offset+1 to offset+limit in
\* descending order of the kind's time field: so many as the table holds in
\* those ranks, distinct, each persisted, newest first, and every row left
\* out before the page is at least as new as the page's rows, every row left
\* out after it at most as new.
C24_GetAllPage ==
    ret.op = "get_all" =>
        LET table  == ret.arg[1]
            limit  == ret.arg[2]
            offset == ret.arg[3]
            n      == Cardinality(db[table])
            size   == IF n <= offset THEN 0
                      ELSE IF n - offset < limit THEN n - offset ELSE limit
            at(e)  == isoformat(e[TimeColumn(table)]).iso
            ids    == {e[PrimaryKey(table)] : e \in Range(ret.val)}
            out    == {r \in db[table] : r[PrimaryKey(table)] \notin ids}
        IN  /\ ret.err = NoError
            /\ Len(ret.val) = size
            /\ Cardinality(ids) = size
            /\ \A e \in Range(ret.val) :
                   \E r \in db[table] : r[PrimaryKey(table)] = e[PrimaryKey(table)]
            /\ \A i, j \in 1..Len(ret.val) : i < j => at(ret.val[i]) >= at(ret.val[j])
            /\ \E before \in SUBSET out :
                   /\ Cardinality(before) = (IF n < offset THEN n ELSE offset)
                   /\ \A r \in before, e \in Range(ret.val) :
                          r[TimeColumn(table)].iso >= at(e)
                   /\ \A r \in out \ before, e \in Range(ret.val) :
                          r[TimeColumn(table)].iso <= at(e)

\* C25: the analysis parent graph is acyclic in every state reached through
\* repository inserts.  From every persisted analysis the parent pointers
\* reach an analysis with a null parent within as many steps as there are
\* analyses, whatever entities the inserts were given.
C25_ParentGraphAcyclic ==
    \A r \in db.analyses :
        LET n     == Cardinality(db.analyses)
            chain == ParentChain(db, r.analysis_id, n + 1)
        IN  /\ Len(chain) <= n
            /\ \E root \in RowsWith(db, "analyses", "analysis_id", chain[Len(chain)]) :
                   root.parent_analysis_id = NULL

\* C26: SnapshotRepository.insert returns the existing record whenever a
\* record with the identical hash is already persisted, also when the very
\* same snapshot (same snapshot_id, same hash) is inserted again; it raises
\* DuplicateEntityError only when the snapshot_id is persisted with another
\* hash; and in both cases the table is unchanged.
C26_SnapshotInsertDuplicates ==
    [][(ret = NoCall /\ ret'.op = "SnapshotRepository.insert") =>
          LET e        == ret'.arg
              sameHash == RowsWith(db, "info_snapshots", "hash", e.hash)
              sameId   == RowsWith(db, "info_snapshots", "snapshot_id", e.snapshot_id)
          IN  /\ sameHash # {} =>
                     /\ ret'.err = NoError
                     /\ Len(ret'.val) = 1
                     /\ SnapshotRow(ret'.val[1]) \in sameHash
                     /\ db' = db
              /\ ret'.err # NoError <=> (sameHash = {} /\ sameId # {})
              /\ ret'.err # NoError =>
                     /\ ret'.err = DuplicateEntityError("InfoSnapshot", e.hash)
                     /\ db' = db]_vars

\* an insert under a persisted snapshot_id with other content was rejected
\* as a duplicate while a snapshot is persisted
C26_Witness ==
    /\ ret.op = "SnapshotRepository.insert"
    /\ ret.err = DuplicateEntityError("InfoSnapshot", ret.arg.hash)
    /\ \E r \in db.info_snapshots :
           r.snapshot_id = ret.arg.snapshot_id /\ r.hash # ret.arg.hash

----------------------------------------------------------------------------
(* Two writers, each on a connection of its own.  DataCollector's           *)
(* collect_snapshot inserts a snapshot; OutcomeService's                    *)
(* ingest_outcome_for_game looks the game up, inserts the outcome it built  *)
(* from the scores, and on DuplicateEntityError reads the game again.  Each *)
(* statement is a step.  SQLite lets one connection write at a time: an     *)
(* INSERT waits (busy handler) while another connection has an uncommitted  *)
(* write.  txn is the view of the connection that holds the write lock.     *)

Conns == {"c1", "c2"}

\* every connection writes whenever it likes
WriteLockFree_always(c) == TRUE

\* no other connection has an uncommitted write
WriteLockFree(c) ==
    \A d \in Conns \ {c} : IF writer[d] = Idle THEN TRUE ELSE writer[d].at # "commit"

RaceInit ==
    /\ focus = "race"
    /\ db = EmptyDb
    /\ txn = EmptyDb
    /\ ret = NoCall
    /\ pc = "idle"
    /\ current_id = None
    /\ lineage = <<>>
    /\ walked = 0
    /\ writer = [c \in Conns |-> Idle]
    /\ reader = Idle

\* where connection c is in its call, and the call's result once it is done
RaceAt(c, at, err, val) ==
    /\ writer' = [writer EXCEPT ![c] = [@ EXCEPT !.at = at, !.err = err, !.val = val]]
    /\ UNCHANGED <<focus, ret, pc, current_id, lineage, walked, reader>>

\* SnapshotRepository.insert(snapshot) or ingest_outcome_for_game(game_id)
\* is called on connection c
RaceCall(c) ==
    /\ writer[c] = Idle
    /\ \/ \E e \in Snapshots :
              writer' = [writer EXCEPT ![c] =
                            [op |-> "SnapshotRepository.insert", arg |-> e, e |-> e,
                             table |-> "info_snapshots", at |-> "INSERT",
                             err |-> NoError, val |-> <<>>]]
       \/ \E g \in GameIds :
              writer' = [writer EXCEPT ![c] =
                            [op |-> "ingest_outcome_for_game", arg |-> g,
                             e |-> [outcome_id |-> None],
                             table |-> "outcomes", at |-> "get_by_game_id",
                             err |-> NoError, val |-> <<>>]]
    /\ UNCHANGED <<focus, db, txn, ret, pc, current_id, lineage, walked, reader>>

\* ingest_outcome_for_game: the outcome of the game if there is one, else
\* the scores are fetched and the outcome is built, under a new outcome_id
RaceCheck(c) ==
    /\ writer[c] # Idle
    /\ writer[c].at = "get_by_game_id"
    /\ LET existing == Outcome_get_by_game_id(db, writer[c].arg)
       IN  IF existing.err # NoError \/ existing.val # <<>>
           THEN RaceAt(c, "done", existing.err, existing.val)
           ELSE \E id \in OutcomeIds :
                   /\ \A r \in db.outcomes : r.outcome_id # id
                   /\ \A d \in Conns \ {c} :
                          IF writer[d] = Idle THEN TRUE
                          ELSE IF writer[d].table # "outcomes" THEN TRUE
                          ELSE writer[d].e.outcome_id # id
                   /\ writer' = [writer EXCEPT ![c] =
                                    [@ EXCEPT !.at = "INSERT",
                                              !.e = Outcome_create(id, writer[c].arg,
                                                                   1, "home")]]
                   /\ UNCHANGED <<focus, ret, pc, current_id, lineage, walked, reader>>
    /\ UNCHANGED <<db, txn>>

\* cursor.execute(INSERT ...) of insert, once the write lock is free; on
\* IntegrityError the except clause rolls back, and then SnapshotRepository
\* looks for the hash if the message names it, OutcomeRepository raises
\* DuplicateEntityError, which ingest_outcome_for_game catches
RaceInsert(c) ==
    /\ writer[c] # Idle
    /\ writer[c].at = "INSERT"
    /\ WriteLockFree(c)
    /\ LET e  == writer[c].e
           st == IF writer[c].table = "info_snapshots"
                 THEN InsertRow(db, "info_snapshots", SnapshotRow(e))
                 ELSE InsertRow(db, "outcomes", OutcomeRow(e))
       IN  IF st.error = "none"
           THEN /\ txn' = st.t
                /\ UNCHANGED db
                /\ RaceAt(c, "commit", NoError, <<>>)
           ELSE /\ db' = rollback(db, st.t).db
                /\ txn' = rollback(db, st.t).txn
                /\ IF writer[c].table = "outcomes"
                   THEN RaceAt(c, "except", NoError, <<>>)
                   ELSE IF MentionsUniqueHash(st.error)
                   THEN RaceAt(c, "get_by_hash", NoError, <<>>)
                   ELSE RaceAt(c, "done",
                               DuplicateEntityError("InfoSnapshot", e.hash), <<>>)

\* self._conn.commit(); return the entity
RaceCommit(c) ==
    /\ writer[c] # Idle
    /\ writer[c].at = "commit"
    /\ db' = commit(db, txn).db
    /\ txn' = commit(db, txn).txn
    /\ RaceAt(c, "done", NoError, <<writer[c].e>>)

\* SnapshotRepository.insert: existing = self.get_by_hash(snapshot.hash),
\* returned if there is one, else DuplicateEntityError;
\* ingest_outcome_for_game: return repo.get_by_game_id(game_id)
RaceExcept(c) ==
    /\ writer[c] # Idle
    /\ writer[c].at \in {"get_by_hash", "except"}
    /\ LET existing == IF writer[c].at = "get_by_hash"
                       THEN get_by_hash(db, "info_snapshots", writer[c].e.hash)
                       ELSE Outcome_get_by_game_id(db, writer[c].arg)
       IN  IF writer[c].at = "get_by_hash" /\ existing.err = NoError
              /\ existing.val = <<>>
           THEN RaceAt(c, "done",
                       DuplicateEntityError("InfoSnapshot", writer[c].e.hash), <<>>)
           ELSE RaceAt(c, "done", existing.err, existing.val)
    /\ UNCHANGED <<db, txn>>

\* the caller has its result
RaceReturn(c) ==
    /\ writer[c] # Idle
    /\ writer[c].at = "done"
    /\ writer' = [writer EXCEPT ![c] = Idle]
    /\ UNCHANGED <<focus, db, txn, ret, pc, current_id, lineage, walked, reader>>

RaceNext ==
    \E c \in Conns :
        \/ RaceCall(c)
        \/ RaceCheck(c)
        \/ RaceInsert(c)
        \/ RaceCommit(c)
        \/ RaceExcept(c)
        \/ RaceReturn(c)

RaceSpec == RaceInit /\ [][RaceNext]_vars

\* C27: two writers on separate connections that insert InfoSnapshots of
\* identical content under different ids.  However their statements
\* interleave, one row with that content is committed, every insert call
\* that has returned gave that row's snapshot_id, and none raised.
C27_ConcurrentSnapshotInsert ==
    \A c \in Conns :
        (/\ writer[c] # Idle
         /\ writer[c].op = "SnapshotRepository.insert"
         /\ writer[c].at = "done") =>
            LET rows == RowsWith(db, "info_snapshots", "hash", writer[c].e.hash)
            IN  /\ Cardinality(rows) = 1
                /\ writer[c].err = NoError
                /\ Len(writer[c].val) = 1
                /\ \A r \in rows : writer[c].val[1].snapshot_id = r.snapshot_id

\* both connections inserted the same content under different ids at the
\* same time: each has returned, one its own snapshot, the other the first's
C27_Witness ==
    /\ \A c \in Conns :
           /\ writer[c] # Idle
           /\ writer[c].op = "SnapshotRepository.insert"
           /\ writer[c].at = "done"
    /\ writer["c1"].e.snapshot_id # writer["c2"].e.snapshot_id
    /\ writer["c1"].e.hash = writer["c2"].e.hash
    /\ writer["c1"].val = writer["c2"].val
    /\ Cardinality(db.info_snapshots) = 1

\* C28: get_by_game_id(g, limit) raises nothing and returns only snapshots
\* of game g in ascending collected_at order; get_latest_by_game_id(g)
\* returns the snapshot of g with the greatest collected_at, which is the
\* last element of get_by_game_id(g) whenever g has at most limit
\* snapshots, and None exactly when g has no snapshot.
C28_SnapshotsByGame ==
    [][(ret = NoCall /\ ret'.op = "SnapshotRepository.get_latest_by_game_id") =>
          LET g    == ret'.arg
              rows == RowsWith(db, "info_snapshots", "game_id", g)
          IN  /\ ret'.err = NoError
              /\ ret'.val = <<>> <=> rows = {}
              /\ \A e \in Range(ret'.val) :
                     /\ SnapshotRow(e) \in rows
                     /\ \A r \in rows : r.collected_at.iso <= e.collected_at
                     /\ \A q \in RowOrders(rows, "collected_at", FALSE) :
                            \A list \in {RowsToEntities(db, "info_snapshots",
                                                        Page(q, Cardinality(rows), 0))} :
                                /\ list.err = NoError
                                /\ \A i \in 1..Len(list.val) :
                                       list.val[i].game_id = g
                                /\ list.val[Len(list.val)] = e]_vars

----------------------------------------------------------------------------
\* every junction row and every evaluation of d references persisted rows
ReferencesPersisted(d) ==
    /\ \A r \in d.analysis_snapshots :
           /\ \E x \in d.analyses : x.analysis_id = r.analysis_id
           /\ \E x \in d.info_snapshots : x.snapshot_id = r.snapshot_id
    /\ \A r \in d.proposal_evaluations :
           /\ \E x \in d.improvement_proposals : x.proposal_id = r.proposal_id
           /\ \E x \in d.evaluations : x.evaluation_id = r.evaluation_id
    /\ \A r \in d.evaluations :
           /\ \E x \in d.analyses : x.analysis_id = r.analysis_id
           /\ \E x \in d.outcomes : x.game_id = r.game_id

\* the insert of e would leave a reference to a row that is not persisted
MissingReference(op, e, d) ==
    CASE op = "AnalysisRepository.insert" ->
            \E id \in Range(e.input_snapshot_ids) :
                \A x \in d.info_snapshots : x.snapshot_id # id
      [] op = "EvaluationRepository.insert" ->
            \/ \A x \in d.analyses : x.analysis_id # e.analysis_id
            \/ \A x \in d.outcomes : x.game_id # e.game_id
      [] op = "ProposalRepository.insert" ->
            \E id \in Range(e.based_on_evaluation_ids) :
                \A x \in d.evaluations : x.evaluation_id # id
      [] OTHER -> FALSE

\* C29: referential integrity holds in every reachable state: every
\* analysis_snapshots row references a persisted analysis and a persisted
\* snapshot, every proposal_evaluations row a persisted proposal and a
\* persisted evaluation, every evaluation a persisted analysis and a game_id
\* with a persisted outcome; an insert that would violate this raises and
\* persists nothing, on the connection too.
C29_ReferentialIntegrity ==
    [][/\ ReferencesPersisted(db')
       /\ ReferencesPersisted(txn')
       /\ (ret = NoCall /\ MissingReference(ret'.op, ret'.arg, db)) =>
              /\ ret'.err # NoError
              /\ db' = db
              /\ txn' = db]_vars

\* an analysis naming a snapshot that was never persisted has been rejected,
\* while another analysis with its junction rows is persisted
C29_Witness ==
    /\ ret.op = "AnalysisRepository.insert"
    /\ ret.err # NoError
    /\ MissingReference(ret.op, ret.arg, db)
    /\ \A x \in db.analyses : x.analysis_id # ret.arg.analysis_id
    /\ db.analysis_snapshots # {}

----------------------------------------------------------------------------
\* C30: two ingest_outcome_for_game calls for the same completed game that
\* run at the same time.  Every call that has returned raised nothing and
\* gave the one Outcome row persisted for its game_id; when both found no
\* existing outcome and built one each, the loser of the race re-read the
\* winner's row after DuplicateEntityError.
C30_ConcurrentOutcomeIngest ==
    \A c \in Conns :
        (/\ writer[c] # Idle
         /\ writer[c].op = "ingest_outcome_for_game"
         /\ writer[c].at = "done") =>
            LET rows == RowsWith(db, "outcomes", "game_id", writer[c].arg)
            IN  /\ Cardinality(rows) = 1
                /\ writer[c].err = NoError
                /\ Len(writer[c].val) = 1
                /\ OutcomeRow(writer[c].val[1]) \in rows
                /\ writer[c].e.outcome_id # None =>
                       \A d \in Conns \ {c} :
                           (/\ writer[d] # Idle
                            /\ writer[d].op = "ingest_outcome_for_game"
                            /\ writer[d].arg = writer[c].arg
                            /\ writer[d].at = "done") =>
                               writer[d].val = writer[c].val

\* both calls found no outcome for the game and built one under ids of
\* their own; both have returned the same outcome and one row is persisted
C30_Witness ==
    /\ \A c \in Conns :
           /\ writer[c] # Idle
           /\ writer[c].op = "ingest_outcome_for_game"
           /\ writer[c].at = "done"
           /\ writer[c].e.outcome_id # None
    /\ writer["c1"].arg = writer["c2"].arg
    /\ writer["c1"].e.outcome_id # writer["c2"].e.outcome_id
    /\ writer["c1"].val = writer["c2"].val
    /\ Cardinality(db.outcomes) = 1

====
